---- MODULE Spec2Model ----
(***************************************************************************)
(* Model of the dual-annotator canvas (gui/canvas.py), its shape classes   *)
(* (core/*.py), the class registry (core/class_manager.py) and the         *)
(* window glue that feeds it (gui/main_window.py, gui/class_panel.py).     *)
(*                                                                         *)
(* Python objects are modelled by a store: `obj` is the sequence of all    *)
(* shape objects ever constructed, a shape reference is an index into it   *)
(* (0 is None) and the index doubles as the shape's uuid `id`.  `lists`    *)
(* is the store of Python list objects used as PolygonShape.points, so     *)
(* that two shapes holding the same list object share one entry.           *)
(*                                                                         *)
(* A normalized coordinate v of a shape is stored as the integer 2*D*v,    *)
(* D the image dimension it is normalized against (half pixels).  With     *)
(* image dimensions that are powers of two the float arithmetic of the     *)
(* source is exact, and so is this representation.  The view scale is      *)
(* the constructor's 1.0 (wheel and zoom buttons are not modelled).        *)
(***************************************************************************)
EXTENDS Integers, Sequences, FiniteSets, TLC

\* ------------------------------------------------------------------ bounds
\* Upper bound on the number of shape objects constructed in one run.
MaxId == 10
\* Upper bound on the number of points lists constructed in one run.
MaxLists == 4
\* Upper bound on the number of polygon vertices clicked.
MaxPoints == 4
\* Upper bound on the number of input events after the initial state.
MaxEvents == 4
\* AnnotationCanvas.max_stack_size, scaled down from the source's 50.
max_stack_size == 2
\* Largest pan offset (widget pixels) explored.
MaxPan == 8
\* Upper bound on the number of calls made on a shape taken alone.
MaxCalls == 3

\* ------------------------------------------------------- program constants
handle_size == 8
closure_threshold == 20
min_radius == 5

\* ------------------------------------------------------------------ inputs
\* Images that can be loaded: <<width, height>>.
Images == { <<32, 32>> }
\* Widget positions of pointer events.
Positions == { <<4, 4>>, <<10, 10>>, <<20, 20>>, <<28, 28>>, <<28, 4>>, <<4, 28>> }
\* MainWindow.setup_default_classes
DefaultClasses == { "Car", "Person", "Bicycle", "Dog" }
\* Classes the user clicks on in the class panel.
ClassInputs == { "Car" }
ShapeTypes == { "box", "polygon", "circle", "ellipse", "none" }

None == 0
NoPos == << >>

\* ----------------------------------------------------------------- helpers
Min(a, b) == IF a <= b THEN a ELSE b
Max(a, b) == IF a >= b THEN a ELSE b
Abs(a) == IF a >= 0 THEN a ELSE -a

\* Python int(n / d) for d > 0: truncation toward zero.
TruncDiv(n, d) == IF n >= 0 THEN n \div d ELSE -((-n) \div d)

\* Python int(math.sqrt(n)) for n >= 0.
ISqrt(n) == CHOOSE r \in 0..(n + 1) : r * r <= n /\ (r + 1) * (r + 1) > n

\* list.remove(x) on a list that contains x: drops the first occurrence.
RECURSIVE RemoveFirst(_, _)
RemoveFirst(s, x) ==
    IF s = << >> THEN << >>
    ELSE IF Head(s) = x THEN Tail(s)
    ELSE << Head(s) >> \o RemoveFirst(Tail(s), x)

InSeq(x, s) == \E i \in 1..Len(s) : s[i] = x

Last(s) == s[Len(s)]
Front(s) == SubSeq(s, 1, Len(s) - 1)

\* ------------------------------------------------------------ shape objects
\* One record shape for the four classes; the fields a class does not have
\* stay at their initial value and are never read for that class.
\* has_origin: whether the object has a _resize_origin attribute at all.
\* id: 0 stands for the uuid the constructor drew for this object, which no
\* other object has (see IdOf); from_dict overwrites it with a stored id.
BlankShape(type, class_id, iw, ih) ==
    [ id |-> 0, type |-> type, class_id |-> class_id, selected |-> FALSE,
      image_width |-> iw, image_height |-> ih,
      x |-> 0, y |-> 0, width |-> 0, height |-> 0,
      center_x |-> 0, center_y |-> 0, radius |-> 0,
      radius_x |-> 0, radius_y |-> 0,
      points |-> None, closed |-> FALSE,
      has_origin |-> (type # "polygon"), resize_origin |-> NoPos ]

\* hasattr(shape, 'x') and hasattr(shape, 'y')
HasXY(s) == s.type = "box"
\* hasattr(shape, 'center_x') and hasattr(shape, 'center_y')
HasCenter(s) == s.type \in { "circle", "ellipse" }
\* hasattr(shape, 'points')
HasPoints(s) == s.type = "polygon"
\* hasattr(shape, 'begin_resize')
HasBeginResize(s) == s.type # "polygon"

\* BoundingBox.from_pixels: the fields it assigns, from integer pixel corners.
Box_from_pixels(s, x1, y1, x2, y2, iw, ih) ==
    [ s EXCEPT !.image_width = iw, !.image_height = ih,
               !.x = x1 + x2, !.y = y1 + y2,
               !.width = 2 * Abs(x2 - x1), !.height = 2 * Abs(y2 - y1) ]

\* BoundingBox.to_pixels
Box_to_pixels(s) ==
    << TruncDiv(2 * s.x - s.width, 4), TruncDiv(2 * s.y - s.height, 4),
       TruncDiv(2 * s.x + s.width, 4), TruncDiv(2 * s.y + s.height, 4) >>

\* CircleShape.from_pixels
Circle_from_pixels(s, cx, cy, r) ==
    [ s EXCEPT !.center_x = 2 * cx, !.center_y = 2 * cy, !.radius = 2 * r ]

\* CircleShape.to_pixels
Circle_to_pixels(s) ==
    << TruncDiv(s.center_x, 2), TruncDiv(s.center_y, 2), TruncDiv(s.radius, 2) >>

\* EllipseShape.from_pixels
Ellipse_from_pixels(s, cx, cy, rx, ry) ==
    [ s EXCEPT !.center_x = 2 * cx, !.center_y = 2 * cy,
               !.radius_x = 2 * rx, !.radius_y = 2 * ry ]

\* EllipseShape.to_pixels
Ellipse_to_pixels(s) ==
    << TruncDiv(s.center_x, 2), TruncDiv(s.center_y, 2),
       TruncDiv(s.radius_x, 2), TruncDiv(s.radius_y, 2) >>

\* PolygonShape.to_pixel_points, on the list the shape's points refer to.
\* Polygon points are kept in 1/120 pixel (see PNormX).
Polygon_to_pixel_points(pts) ==
    [ i \in 1..Len(pts) |-> << TruncDiv(pts[i][1], 120), TruncDiv(pts[i][2], 120) >> ]

\* PolygonShape.contains_point: ray casting; xinters keeps its value from the
\* previous edge when the edge is horizontal, as the Python variable does
\* (it cannot be unbound there: y > min and y <= max exclude p1y = p2y).
RECURSIVE RayCast(_, _, _, _, _)
RayCast(pp, i, x, y, inside) ==
    IF i > Len(pp) THEN inside
    ELSE LET p1 == pp[i]
             p2 == pp[(i % Len(pp)) + 1]
             hit == /\ y > Min(p1[2], p2[2])
                    /\ y <= Max(p1[2], p2[2])
                    /\ x <= Max(p1[1], p2[1])
                    /\ \/ p1[1] = p2[1]
                       \* x <= (y - p1y) * (p2x - p1x) / (p2y - p1y) + p1x
                       \/ IF p2[2] > p1[2]
                          THEN (x - p1[1]) * (p2[2] - p1[2])
                                   <= (y - p1[2]) * (p2[1] - p1[1])
                          ELSE (x - p1[1]) * (p2[2] - p1[2])
                                   >= (y - p1[2]) * (p2[1] - p1[1])
         IN  RayCast(pp, i + 1, x, y, IF hit THEN ~inside ELSE inside)

Polygon_contains_point(s, pts, x, y) ==
    IF ~s.closed \/ Len(pts) < 3 THEN FALSE
    ELSE RayCast(Polygon_to_pixel_points(pts), 1, x, y, FALSE)

\* shape.contains_point(x, y) for the four classes; pts is the polygon's list.
contains_point(s, pts, px, py) ==
    CASE s.type = "box" ->
            LET b == Box_to_pixels(s)
            IN  b[1] <= px /\ px <= b[3] /\ b[2] <= py /\ py <= b[4]
      [] s.type = "circle" ->
            LET c == Circle_to_pixels(s)
            IN  (px - c[1]) * (px - c[1]) + (py - c[2]) * (py - c[2]) <= c[3] * c[3]
      [] s.type = "ellipse" ->
            LET e == Ellipse_to_pixels(s)
            IN  IF e[3] = 0 \/ e[4] = 0 THEN FALSE
                ELSE (px - e[1]) * (px - e[1]) * e[4] * e[4]
                       + (py - e[2]) * (py - e[2]) * e[3] * e[3]
                       <= e[3] * e[3] * e[4] * e[4]
      [] OTHER -> Polygon_contains_point(s, pts, px, py)

\* The handle names PolygonShape.get_resize_handles gives its vertices:
\* f'vertex_{i}' for i = 0, 1, ...
VertexNames == << "vertex_0", "vertex_1", "vertex_2", "vertex_3", "vertex_4" >>
VertexHandles == { VertexNames[i] : i \in 1..Len(VertexNames) }
\* int(handle_name.split('_')[1])
VertexIndex(h) == (CHOOSE i \in 1..Len(VertexNames) : VertexNames[i] = h) - 1

\* shape.get_resize_handles(): a sequence of <<name, <<hx, hy>>>> in the
\* insertion order of the Python dict.
get_resize_handles(s, pts) ==
    CASE s.type = "box" ->
            LET b == Box_to_pixels(s)
            IN  << << "top_left", << b[1], b[2] >> >>,
                   << "top_right", << b[3], b[2] >> >>,
                   << "bottom_left", << b[1], b[4] >> >>,
                   << "bottom_right", << b[3], b[4] >> >> >>
      [] s.type = "circle" ->
            LET c == Circle_to_pixels(s)
            IN  << << "top_left", << c[1] - c[3], c[2] - c[3] >> >>,
                   << "top_right", << c[1] + c[3], c[2] - c[3] >> >>,
                   << "bottom_left", << c[1] - c[3], c[2] + c[3] >> >>,
                   << "bottom_right", << c[1] + c[3], c[2] + c[3] >> >> >>
      [] s.type = "ellipse" ->
            LET e == Ellipse_to_pixels(s)
            IN  << << "top_left", << e[1] - e[3], e[2] - e[4] >> >>,
                   << "top_right", << e[1] + e[3], e[2] - e[4] >> >>,
                   << "bottom_left", << e[1] - e[3], e[2] + e[4] >> >>,
                   << "bottom_right", << e[1] + e[3], e[2] + e[4] >> >> >>
      [] OTHER ->
            LET pp == Polygon_to_pixel_points(pts)
            IN  [ i \in 1..Len(pp) |-> << VertexNames[i], pp[i] >> ]

\* shape.begin_resize() of Box, Circle and Ellipse: the origin is to_pixels().
begin_resize(s) ==
    [ s EXCEPT !.resize_origin =
        CASE s.type = "box" -> Box_to_pixels(s)
          [] s.type = "circle" -> Circle_to_pixels(s)
          [] OTHER -> Ellipse_to_pixels(s) ]

CornerHandles == { "top_left", "top_right", "bottom_left", "bottom_right" }

\* The common start of the three corner resizes: the origin's bounding box
\* with the delta applied to the dragged corner, then the inversion fix.
\* Returns <<left, top, right, bottom>>.
DraggedBounds(l0, t0, r0, b0, h, dx, dy) ==
    LET left   == IF h \in { "top_left", "bottom_left" } THEN l0 + dx ELSE l0
        right0 == IF h \in { "top_right", "bottom_right" } THEN r0 + dx ELSE r0
        top    == IF h \in { "top_left", "top_right" } THEN t0 + dy ELSE t0
        bot0   == IF h \in { "bottom_left", "bottom_right" } THEN b0 + dy ELSE b0
        right  == IF right0 <= left THEN left + 1 ELSE right0
        bottom == IF bot0 <= top THEN top + 1 ELSE bot0
    IN  << left, top, right, bottom >>

\* A clamp that lets everything through.
Clamp_none(v, hi) == v

\* max(0, min(v, hi))
Clamp(v, hi) == Max(0, Min(v, hi))

\* BoundingBox.resize_from_handle: <<ok, shape>>.
Box_resize_from_handle(s, h, dx, dy) ==
    IF s.resize_origin = NoPos THEN << FALSE, s >>
    ELSE IF h \notin CornerHandles THEN << FALSE, s >>
    ELSE LET o == s.resize_origin
             d == DraggedBounds(o[1], o[2], o[3], o[4], h, dx, dy)
             left   == Clamp(d[1], s.image_width - 1)
             right  == Clamp(d[3], s.image_width - 1)
             top    == Clamp(d[2], s.image_height - 1)
             bottom == Clamp(d[4], s.image_height - 1)
         IN  << TRUE, [ s EXCEPT !.x = left + right, !.y = top + bottom,
                                 !.width = 2 * (right - left),
                                 !.height = 2 * (bottom - top) ] >>

\* A circle resize that takes the radius of the dragged bounds as it is.
Circle_resize_from_handle_unclamped(s, h, dx, dy) ==
    IF s.resize_origin = NoPos THEN << FALSE, s >>
    ELSE IF h \notin { "top_left", "top_right", "bottom_left", "bottom_right" }
    THEN << FALSE, s >>
    ELSE LET o == s.resize_origin
             l0 == o[1] - o[3]
             r0 == o[1] + o[3]
             t0 == o[2] - o[3]
             b0 == o[2] + o[3]
             left == IF h \in { "top_left", "bottom_left" } THEN l0 + dx ELSE l0
             right == IF h \in { "top_right", "bottom_right" } THEN r0 + dx ELSE r0
             top == IF h \in { "top_left", "top_right" } THEN t0 + dy ELSE t0
             bottom == IF h \in { "bottom_left", "bottom_right" } THEN b0 + dy ELSE b0
         IN  << TRUE, [ s EXCEPT !.center_x = left + right, !.center_y = top + bottom,
                                 !.radius = IF right - left <= bottom - top
                                            THEN right - left ELSE bottom - top ] >>

\* CircleShape.resize_from_handle: <<ok, shape>>.  Radii are in half pixels,
\* so min(right-left, bottom-top)/2 is min(...) itself.
Circle_resize_from_handle(s, h, dx, dy) ==
    IF s.resize_origin = NoPos THEN << FALSE, s >>
    ELSE IF h \notin CornerHandles THEN << FALSE, s >>
    ELSE LET o == s.resize_origin
             d == DraggedBounds(o[1] - o[3], o[2] - o[3], o[1] + o[3], o[2] + o[3],
                                h, dx, dy)
             new_r == Min(d[3] - d[1], d[4] - d[2])
             max_radius == Min(s.image_width, s.image_height) \div 2
             r == Max(2 * min_radius, Min(new_r, 2 * max_radius))
             \* center in half pixels of its own axis, radius against max(w, h)
         IN  << TRUE, [ s EXCEPT !.center_x = d[1] + d[3], !.center_y = d[2] + d[4],
                                 !.radius = r ] >>

\* EllipseShape.resize_from_handle: <<ok, shape>>.
Ellipse_resize_from_handle(s, h, dx, dy) ==
    IF s.resize_origin = NoPos THEN << FALSE, s >>
    ELSE IF h \notin CornerHandles THEN << FALSE, s >>
    ELSE LET o == s.resize_origin
             d == DraggedBounds(o[1] - o[3], o[2] - o[4], o[1] + o[3], o[2] + o[4],
                                h, dx, dy)
             max_rx == s.image_width \div 2
             max_ry == s.image_height \div 2
         IN  << TRUE, [ s EXCEPT !.center_x = d[1] + d[3], !.center_y = d[2] + d[4],
                                 !.radius_x = Max(2 * min_radius, Min(d[3] - d[1], 2 * max_rx)),
                                 !.radius_y = Max(2 * min_radius, Min(d[4] - d[2], 2 * max_ry)) ] >>

\* PolygonShape.resize_from_handle: the vertex is replaced IN the list
\* object (self.points[idx] = ...), relative to its current value.
\* Returns <<ok, list>>.
Polygon_resize_from_handle(pts, h, dx, dy) ==
    IF h \notin VertexHandles THEN << FALSE, pts >>
    ELSE IF VertexIndex(h) >= Len(pts) THEN << FALSE, pts >>
    ELSE << TRUE, [ pts EXCEPT ![VertexIndex(h) + 1] =
                      << @[1] + 120 * dx, @[2] + 120 * dy >> ] >>

\* ------------------------------------------------------------ program state
VARIABLES
    \* AnnotationCanvas: image
    pixmap, image_width, image_height,
    \* AnnotationCanvas: tool and shapes in progress
    current_shape_type, polygon_points, circle_center, circle_radius,
    ellipse_center, ellipse_radius_x, ellipse_radius_y,
    \* AnnotationCanvas: view
    offset_x, offset_y, dragging, last_mouse_pos, pan_mode,
    \* AnnotationCanvas: collection, box in progress, selection
    shapes, drawing, start_point, current_shape, selected_shape,
    \* AnnotationCanvas: resize
    resizing, resizing_handle, resize_start_pos,
    \* AnnotationCanvas: drag-copy
    drag_copy, drag_copy_shape, drag_start_pos, original_shape,
    \* AnnotationCanvas: clipboard and paste
    clipboard_shape, pasting, paste_shape, paste_start_pos, paste_confirmed,
    \* AnnotationCanvas: history
    undo_stack, redo_stack,
    \* AnnotationCanvas: move
    moving, move_start_pos, move_original_positions,
    \* ClassManager
    classes, current_class_id,
    \* the Python heap: shape objects and points lists
    obj, lists,
    \* the pointer's buttons; the last call of undo, redo, copy_selected or
    \* start_paste and what it returned; whether a handler raised
    left_down, middle_down, ret, raised,
    \* history variables: the number of events handled; the geometry of the
    \* collection when the current gesture began; whether the last event
    \* ended a gesture that changed the collection; when the last event was
    \* a successful undo, the collection and its geometry before it; whether
    \* save_state ever dropped a snapshot
    steps, pre_gesture, committed, before_undo, evicted,
    \* what the events since the last left press amount to: the operation the
    \* press started while only pointer moves followed it, or the operation
    \* the last event ended a gesture with ("no_class" for a press the
    \* drawing tools refused for want of an active class, "close_polygon" for
    \* a press that closed the polygon, "load_image" for a load, "delete" for
    \* a delete that removed a shape); "" otherwise
    gesture,
    \* where the last event moved the pointer to, when it was a pointer move
    \* of such a gesture; << >> otherwise
    gesture_pos,
    \* the opening events the user has yet to make
    script

vars == << pixmap, image_width, image_height,
           current_shape_type, polygon_points, circle_center, circle_radius,
           ellipse_center, ellipse_radius_x, ellipse_radius_y,
           offset_x, offset_y, dragging, last_mouse_pos, pan_mode,
           shapes, drawing, start_point, current_shape, selected_shape,
           resizing, resizing_handle, resize_start_pos,
           drag_copy, drag_copy_shape, drag_start_pos, original_shape,
           clipboard_shape, pasting, paste_shape, paste_start_pos, paste_confirmed,
           undo_stack, redo_stack,
           moving, move_start_pos, move_original_positions,
           classes, current_class_id,
           obj, lists,
           left_down, middle_down, ret, raised,
           steps, pre_gesture, committed, before_undo, evicted, gesture, gesture_pos,
           script >>

\* The program state as one record, so that a handler is a function from the
\* state before it to the state after it and calls compose.
State ==
    [ pixmap |-> pixmap, image_width |-> image_width, image_height |-> image_height,
      current_shape_type |-> current_shape_type, polygon_points |-> polygon_points,
      circle_center |-> circle_center, circle_radius |-> circle_radius,
      ellipse_center |-> ellipse_center, ellipse_radius_x |-> ellipse_radius_x,
      ellipse_radius_y |-> ellipse_radius_y,
      offset_x |-> offset_x, offset_y |-> offset_y, dragging |-> dragging,
      last_mouse_pos |-> last_mouse_pos, pan_mode |-> pan_mode,
      shapes |-> shapes, drawing |-> drawing, start_point |-> start_point,
      current_shape |-> current_shape, selected_shape |-> selected_shape,
      resizing |-> resizing, resizing_handle |-> resizing_handle,
      resize_start_pos |-> resize_start_pos,
      drag_copy |-> drag_copy, drag_copy_shape |-> drag_copy_shape,
      drag_start_pos |-> drag_start_pos, original_shape |-> original_shape,
      clipboard_shape |-> clipboard_shape, pasting |-> pasting,
      paste_shape |-> paste_shape, paste_start_pos |-> paste_start_pos,
      paste_confirmed |-> paste_confirmed,
      undo_stack |-> undo_stack, redo_stack |-> redo_stack,
      moving |-> moving, move_start_pos |-> move_start_pos,
      move_original_positions |-> move_original_positions,
      classes |-> classes, current_class_id |-> current_class_id,
      obj |-> obj, lists |-> lists,
      left_down |-> left_down, middle_down |-> middle_down,
      ret |-> ret, raised |-> raised,
      steps |-> steps, pre_gesture |-> pre_gesture, committed |-> committed,
      before_undo |-> before_undo, evicted |-> evicted, gesture |-> gesture,
      gesture_pos |-> gesture_pos,
      script |-> script ]

\* The next state is the record n.
Becomes(n) ==
    /\ pixmap' = n.pixmap /\ image_width' = n.image_width
    /\ image_height' = n.image_height
    /\ current_shape_type' = n.current_shape_type
    /\ polygon_points' = n.polygon_points
    /\ circle_center' = n.circle_center /\ circle_radius' = n.circle_radius
    /\ ellipse_center' = n.ellipse_center
    /\ ellipse_radius_x' = n.ellipse_radius_x
    /\ ellipse_radius_y' = n.ellipse_radius_y
    /\ offset_x' = n.offset_x /\ offset_y' = n.offset_y
    /\ dragging' = n.dragging /\ last_mouse_pos' = n.last_mouse_pos
    /\ pan_mode' = n.pan_mode
    /\ shapes' = n.shapes /\ drawing' = n.drawing /\ start_point' = n.start_point
    /\ current_shape' = n.current_shape /\ selected_shape' = n.selected_shape
    /\ resizing' = n.resizing /\ resizing_handle' = n.resizing_handle
    /\ resize_start_pos' = n.resize_start_pos
    /\ drag_copy' = n.drag_copy /\ drag_copy_shape' = n.drag_copy_shape
    /\ drag_start_pos' = n.drag_start_pos /\ original_shape' = n.original_shape
    /\ clipboard_shape' = n.clipboard_shape /\ pasting' = n.pasting
    /\ paste_shape' = n.paste_shape /\ paste_start_pos' = n.paste_start_pos
    /\ paste_confirmed' = n.paste_confirmed
    /\ undo_stack' = n.undo_stack /\ redo_stack' = n.redo_stack
    /\ moving' = n.moving /\ move_start_pos' = n.move_start_pos
    /\ move_original_positions' = n.move_original_positions
    /\ classes' = n.classes /\ current_class_id' = n.current_class_id
    /\ obj' = n.obj /\ lists' = n.lists
    /\ left_down' = n.left_down /\ middle_down' = n.middle_down
    /\ ret' = n.ret /\ raised' = n.raised
    /\ steps' = n.steps /\ pre_gesture' = n.pre_gesture
    /\ committed' = n.committed /\ before_undo' = n.before_undo
    /\ evicted' = n.evicted /\ gesture' = n.gesture /\ script' = n.script
    /\ gesture_pos' = n.gesture_pos

\* AnnotationCanvas.__init__, ClassManager.__init__ and
\* MainWindow.setup_default_classes: the state after construction.
Constructed ==
    [ pixmap |-> FALSE, image_width |-> 0, image_height |-> 0,
      current_shape_type |-> "box", polygon_points |-> << >>,
      circle_center |-> NoPos, circle_radius |-> 0,
      ellipse_center |-> NoPos, ellipse_radius_x |-> 0, ellipse_radius_y |-> 0,
      offset_x |-> 0, offset_y |-> 0, dragging |-> FALSE,
      last_mouse_pos |-> NoPos, pan_mode |-> FALSE,
      shapes |-> << >>, drawing |-> FALSE, start_point |-> NoPos,
      current_shape |-> None, selected_shape |-> None,
      resizing |-> FALSE, resizing_handle |-> "", resize_start_pos |-> NoPos,
      drag_copy |-> FALSE, drag_copy_shape |-> None, drag_start_pos |-> NoPos,
      original_shape |-> None,
      clipboard_shape |-> None, pasting |-> FALSE, paste_shape |-> None,
      paste_start_pos |-> NoPos, paste_confirmed |-> FALSE,
      undo_stack |-> << >>, redo_stack |-> << >>,
      moving |-> FALSE, move_start_pos |-> NoPos,
      move_original_positions |-> << >>,
      classes |-> DefaultClasses, current_class_id |-> "",
      obj |-> << >>, lists |-> << >>,
      left_down |-> FALSE, middle_down |-> FALSE,
      ret |-> << "", TRUE >>, raised |-> FALSE,
      steps |-> 0, pre_gesture |-> << >>, committed |-> FALSE,
      before_undo |-> << >>, evicted |-> FALSE, gesture |-> "", gesture_pos |-> << >>,
      script |-> << >> ]

\* ------------------------------------------------------- heap and registry
\* The points list of polygon s ([] for the other classes).
PointsOf(c, s) == IF s.points = None THEN << >> ELSE c.lists[s.points]

\* Shape.copy (Polygon, Circle, Ellipse): a new object with the SAME
\* __dict__ entries (selected, _resize_origin and the points list object
\* included) and a fresh id.  BoundingBox.copy: a new BoundingBox built from
\* x, y, width, height, class_id and the image size; selected and
\* _resize_origin are the constructor's.
\* A copy that keeps the class but not the geometry.
CopyOf_blank(s) == BlankShape(s.type, s.class_id, s.image_width, s.image_height)

\* A copy that keeps the geometry but not the class.
CopyOf_unclassed(s) ==
    IF s.type = "box"
    THEN [ BlankShape("box", "", s.image_width, s.image_height)
             EXCEPT !.x = s.x, !.y = s.y, !.width = s.width, !.height = s.height ]
    ELSE [ s EXCEPT !.id = 0, !.class_id = "" ]

CopyOf(s) ==
    IF s.type = "box"
    THEN [ BlankShape("box", s.class_id, s.image_width, s.image_height)
             EXCEPT !.x = s.x, !.y = s.y, !.width = s.width, !.height = s.height ]
    ELSE \* new_shape.id = str(uuid.uuid4())[:8]
         [ s EXCEPT !.id = 0 ]

\* shape.copy() in state c: the state with the new object; its reference is
\* Len of the new store.
copy(c, r) == [ c EXCEPT !.obj = Append(@, CopyOf(c.obj[r])) ]

\* shape.id of the object at reference r: the id from_dict stored, or the
\* object's own uuid, named by its reference.
IdOf(c, r) == IF c.obj[r].id = 0 THEN r ELSE c.obj[r].id

\* A normalized coordinate v / d as a fraction in lowest terms.
RECURSIVE GCD(_, _)
GCD(a, b) == IF b = 0 THEN a ELSE GCD(b, a % b)
Normalized(v, d) ==
    LET g == GCD(Abs(v), d) IN << v \div g, d \div g >>
\* The model's stored value of the normalized coordinate n for an image
\* dimension of d / u pixels, u being the units per pixel.
Scaled(n, d) == (n[1] * d) \div n[2]

\* to_dict of the four classes.  The stored fields are normalized: the
\* model's half pixels over twice the image dimension (a circle's radius
\* over max(width, height)), polygon points in 1/120 pixel.  'points' is the
\* list object itself: points_list is which list it is, points what it holds.
to_dict(c, r) ==
    LET s == c.obj[r]
        w == 2 * s.image_width
        h == 2 * s.image_height
    IN  CASE s.type = "box" ->
               [ id |-> IdOf(c, r), type |-> "box", class_id |-> s.class_id,
                 x |-> Normalized(s.x, 2 * w), y |-> Normalized(s.y, 2 * h),
                 width |-> Normalized(s.width, 2 * w),
                 height |-> Normalized(s.height, 2 * h) ]
          [] s.type = "circle" ->
               [ id |-> IdOf(c, r), type |-> "circle", class_id |-> s.class_id,
                 center_x |-> Normalized(s.center_x, w),
                 center_y |-> Normalized(s.center_y, h),
                 radius |-> Normalized(s.radius, Max(w, h)) ]
          [] s.type = "ellipse" ->
               [ id |-> IdOf(c, r), type |-> "ellipse", class_id |-> s.class_id,
                 center_x |-> Normalized(s.center_x, w),
                 center_y |-> Normalized(s.center_y, h),
                 radius_x |-> Normalized(s.radius_x, w),
                 radius_y |-> Normalized(s.radius_y, h) ]
          [] OTHER ->
               [ id |-> IdOf(c, r), type |-> "polygon", class_id |-> s.class_id,
                 points_list |-> s.points,
                 points |-> [ i \in 1..Len(PointsOf(c, s)) |->
                                << Normalized(PointsOf(c, s)[i][1], 60 * w),
                                   Normalized(PointsOf(c, s)[i][2], 60 * h) >> ],
                 closed |-> s.closed ]

\* The points list a polygon built from data for an image of the given size
\* refers to, in state c: data['points'] itself unless it is empty (points
\* or []).  The list holds normalized values and the model's lists pixels:
\* read at another image size, the same normalized values are another list
\* of the model, which is appended.
PointsFor(c, data, size) ==
    LET pts == [ i \in 1..Len(data.points) |->
                   << Scaled(data.points[i][1], 120 * size[1]),
                      Scaled(data.points[i][2], 120 * size[2]) >> ]
    IN  IF pts = << >> THEN << c.lists, None >>
        ELSE IF c.lists[data.points_list] = pts THEN << c.lists, data.points_list >>
        ELSE << Append(c.lists, pts), Len(c.lists) + 1 >>

\* The object cls.from_dict(data, image_size) builds: the constructor's
\* object with the stored fields and the stored id.
FromDictObject(c, data, size) ==
    LET w == 2 * size[1]
        h == 2 * size[2]
    IN  CASE data.type = "box" ->
               [ BlankShape("box", data.class_id, size[1], size[2])
                   EXCEPT !.id = data.id,
                          !.x = Scaled(data.x, 2 * w), !.y = Scaled(data.y, 2 * h),
                          !.width = Scaled(data.width, 2 * w),
                          !.height = Scaled(data.height, 2 * h) ]
          [] data.type = "circle" ->
               [ BlankShape("circle", data.class_id, size[1], size[2])
                   EXCEPT !.id = data.id,
                          !.center_x = Scaled(data.center_x, w),
                          !.center_y = Scaled(data.center_y, h),
                          !.radius = Scaled(data.radius, Max(w, h)) ]
          [] data.type = "ellipse" ->
               [ BlankShape("ellipse", data.class_id, size[1], size[2])
                   EXCEPT !.id = data.id,
                          !.center_x = Scaled(data.center_x, w),
                          !.center_y = Scaled(data.center_y, h),
                          !.radius_x = Scaled(data.radius_x, w),
                          !.radius_y = Scaled(data.radius_y, h) ]
          [] OTHER ->
               [ BlankShape("polygon", data.class_id, size[1], size[2])
                   EXCEPT !.id = data.id, !.closed = data.closed,
                          !.points = PointsFor(c, data, size)[2] ]

\* A from_dict that leaves a polygon's closed flag to the constructor.
from_dict_open(c, data, size) ==
    [ c EXCEPT !.obj = Append(@, [ FromDictObject(c, data, size) EXCEPT !.closed = FALSE ]),
               !.lists = IF data.type = "polygon"
                         THEN PointsFor(c, data, size)[1] ELSE @ ]

\* cls.from_dict(data, image_size) of the four classes: the state with the
\* new object.
from_dict(c, data, size) ==
    [ c EXCEPT !.obj = Append(@, FromDictObject(c, data, size)),
               !.lists = IF data.type = "polygon"
                         THEN PointsFor(c, data, size)[1] ELSE @ ]

\* [shape.copy() for shape in self.shapes]: <<state, list of the copies>>.
CopyAll(c) ==
    LET n == Len(c.obj)
        k == Len(c.shapes)
    IN  << [ c EXCEPT !.obj = @ \o [ i \in 1..k |-> CopyOf(c.obj[c.shapes[i]]) ] ],
           [ i \in 1..k |-> n + i ] >>

\* ClassManager.get_current_class: "" is None.
get_current_class(c) ==
    IF c.current_class_id # "" /\ c.current_class_id \in c.classes
    THEN c.current_class_id ELSE ""

\* AnnotationCanvas.widget_to_image, at scale 1.0.
widget_to_image(c, pos) ==
    IF ~c.pixmap THEN << 0, 0 >>
    ELSE << Clamp(pos[1] - c.offset_x, c.image_width - 1),
            Clamp(pos[2] - c.offset_y, c.image_height - 1) >>

\* A pixel length along x (y) as an increment of a coordinate normalized
\* against the shape's own image width (height): px / canvas dimension.
NormX(c, s, px) == (2 * s.image_width * px) \div c.image_width
NormY(c, s, py) == (2 * s.image_height * py) \div c.image_height
\* The same for polygon points, which are kept in 1/120 pixel so that the
\* mean of up to six vertices is exact.
PNormX(c, s, px) == (120 * s.image_width * px) \div c.image_width
PNormY(c, s, py) == (120 * s.image_height * py) \div c.image_height

\* ------------------------------------------------------------------ history
\* AnnotationCanvas.save_state
\* A save_state that never drops the oldest snapshot.
save_state_unbounded(c) ==
    LET cp == CopyAll(c)
    IN  [ cp[1] EXCEPT !.undo_stack = Append(c.undo_stack, cp[2]),
                       !.redo_stack = << >> ]

save_state(c) ==
    LET cp == CopyAll(c)
        pushed == Append(c.undo_stack, cp[2])
    IN  [ cp[1] EXCEPT
            !.undo_stack = IF Len(pushed) > max_stack_size THEN Tail(pushed)
                           ELSE pushed,
            !.evicted = @ \/ Len(pushed) > max_stack_size,
            !.redo_stack = << >> ]

\* AnnotationCanvas.reset_all_states
reset_all_states(c) ==
    [ c EXCEPT !.drawing = FALSE, !.drag_copy = FALSE, !.resizing = FALSE,
               !.resizing_handle = "", !.drag_copy_shape = None,
               !.current_shape = None, !.start_point = NoPos,
               !.pasting = FALSE, !.polygon_points = << >>,
               !.circle_center = NoPos, !.circle_radius = 0,
               !.ellipse_center = NoPos, !.ellipse_radius_x = 0,
               !.ellipse_radius_y = 0 ]

\* AnnotationCanvas.set_shape_type: after reset_all_states the three
\* "cancel any ongoing drawing" tests find nothing left to cancel.
set_shape_type(c, t) ==
    reset_all_states([ c EXCEPT !.current_shape_type = t ])

\* self.shape_selected.emit(...): the signal is connected to
\* MainWindow.on_canvas_shape_selected, which for every argument calls
\* canvas.set_shape_type('none').
shape_selected_emit(c) == set_shape_type(c, "none")

\* An undo that drops the selection before it looks at the stack.
undo_deselecting(c) ==
    LET cp == CopyAll(c)
    IN  IF c.undo_stack = << >>
        THEN [ c EXCEPT !.selected_shape = None, !.ret = << "undo", FALSE >> ]
        ELSE shape_selected_emit(
               [ cp[1] EXCEPT !.redo_stack = Append(c.redo_stack, cp[2]),
                              !.shapes = Last(c.undo_stack),
                              !.undo_stack = Front(c.undo_stack),
                              !.selected_shape = None,
                              !.ret = << "undo", TRUE >> ])

\* An undo that keeps the selection reference.
undo_selected(c) ==
    IF c.undo_stack = << >> THEN [ c EXCEPT !.ret = << "undo", FALSE >> ]
    ELSE LET cp == CopyAll(c)
         IN  shape_selected_emit(
               [ cp[1] EXCEPT !.redo_stack = Append(c.redo_stack, cp[2]),
                              !.shapes = Last(c.undo_stack),
                              !.undo_stack = Front(c.undo_stack),
                              !.ret = << "undo", TRUE >> ])

\* AnnotationCanvas.undo: the state, with ret the returned value.
undo(c) ==
    IF c.undo_stack = << >> THEN [ c EXCEPT !.ret = << "undo", FALSE >> ]
    ELSE LET cp == CopyAll(c)
         IN  shape_selected_emit(
               [ cp[1] EXCEPT !.redo_stack = Append(c.redo_stack, cp[2]),
                              !.shapes = Last(c.undo_stack),
                              !.undo_stack = Front(c.undo_stack),
                              !.selected_shape = None,
                              !.ret = << "undo", TRUE >> ])

\* AnnotationCanvas.redo
redo(c) ==
    IF c.redo_stack = << >> THEN [ c EXCEPT !.ret = << "redo", FALSE >> ]
    ELSE LET cp == CopyAll(c)
         IN  shape_selected_emit(
               [ cp[1] EXCEPT !.undo_stack = Append(c.undo_stack, cp[2]),
                              !.shapes = Last(c.redo_stack),
                              !.redo_stack = Front(c.redo_stack),
                              !.selected_shape = None,
                              !.ret = << "redo", TRUE >> ])

\* ---------------------------------------------------------------- selection
\* for shape in reversed(self.shapes): if shape.contains_point(...): break
\* The topmost shape under image point ip, None if there is none.
ShapeAt(c, ip) ==
    LET hits == { i \in 1..Len(c.shapes) :
                    contains_point(c.obj[c.shapes[i]],
                                   PointsOf(c, c.obj[c.shapes[i]]), ip[1], ip[2]) }
    IN  IF hits = { } THEN None
        ELSE c.shapes[CHOOSE i \in hits : \A j \in hits : j <= i]

\* for shape in self.shapes: shape.selected = False
DeselectAll(c) ==
    [ c EXCEPT !.obj = [ r \in 1..Len(c.obj) |->
                           IF InSeq(r, c.shapes)
                           THEN [ c.obj[r] EXCEPT !.selected = FALSE ]
                           ELSE c.obj[r] ] ]

\* AnnotationCanvas.select_shape
select_shape(c, pos) ==
    IF c.shapes = << >>
    THEN shape_selected_emit([ c EXCEPT !.selected_shape = None ])
    ELSE LET d == DeselectAll(c)
             hit == ShapeAt(d, widget_to_image(d, pos))
         IN  IF hit = None
             THEN shape_selected_emit([ d EXCEPT !.selected_shape = None ])
             ELSE LET e == [ d EXCEPT !.obj[hit].selected = TRUE,
                                      !.selected_shape = hit ]
                      cid == e.obj[hit].class_id
                  IN  \* the signal is emitted only when the shape's class
                      \* is still in the registry
                      IF cid # "" /\ cid \in e.classes
                      THEN shape_selected_emit(e) ELSE e

\* A delete_selected that pushes no snapshot.
delete_selected_unsaved(c) ==
    IF c.selected_shape = None THEN c
    ELSE IF ~InSeq(c.selected_shape, c.shapes)
         THEN [ c EXCEPT !.raised = TRUE ]
         ELSE shape_selected_emit(
                [ c EXCEPT !.shapes = RemoveFirst(@, c.selected_shape),
                           !.selected_shape = None, !.gesture = "delete" ])

\* AnnotationCanvas.delete_selected: list.remove raises ValueError when the
\* selected object is not in self.shapes.
delete_selected(c) ==
    IF c.selected_shape = None THEN c
    ELSE LET d == save_state(c)
         IN  IF ~InSeq(c.selected_shape, d.shapes)
             THEN [ d EXCEPT !.raised = TRUE ]
             ELSE shape_selected_emit(
                    [ d EXCEPT !.shapes = RemoveFirst(@, c.selected_shape),
                               !.selected_shape = None, !.gesture = "delete" ])

\* ------------------------------------------------------------- box drawing
\* AnnotationCanvas.force_reset_for_drawing
force_reset_for_drawing(c) ==
    [ c EXCEPT !.drawing = FALSE, !.drag_copy = FALSE, !.drag_copy_shape = None,
               !.resizing = FALSE, !.resizing_handle = "",
               !.pasting = FALSE, !.paste_shape = None ]

\* A start_drawing that gives the box its class when the press creates it.
start_drawing_classed(c, pos) ==
    LET d == force_reset_for_drawing(c)
    IN  IF get_current_class(d) # "" /\ d.current_shape_type = "box"
        THEN [ d EXCEPT !.drawing = TRUE,
                        !.start_point = widget_to_image(d, pos),
                        !.obj = Append(@, BlankShape("box", get_current_class(d),
                                                     d.image_width, d.image_height)),
                        !.current_shape = Len(d.obj) + 1 ]
        ELSE d

\* AnnotationCanvas.start_drawing (only reached with the box tool)
start_drawing(c, pos) ==
    LET d == force_reset_for_drawing(c)
    IN  IF get_current_class(d) # "" /\ d.current_shape_type = "box"
        THEN [ d EXCEPT !.drawing = TRUE,
                        !.start_point = widget_to_image(d, pos),
                        !.obj = Append(@, BlankShape("box", "", d.image_width,
                                                     d.image_height)),
                        !.current_shape = Len(d.obj) + 1 ]
        ELSE d

\* AnnotationCanvas.update_drawing
update_drawing(c, pos) ==
    IF c.drawing /\ c.start_point # NoPos /\ c.current_shape # None
    THEN LET cur == widget_to_image(c, pos)
             sp == c.start_point
         IN  IF c.obj[c.current_shape].type = "box"
             THEN [ c EXCEPT !.obj[c.current_shape] =
                      Box_from_pixels(@, Min(sp[1], cur[1]), Min(sp[2], cur[2]),
                                      Max(sp[1], cur[1]), Max(sp[2], cur[2]),
                                      c.image_width, c.image_height) ]
             ELSE c
    ELSE c

\* AnnotationCanvas.finish_drawing
finish_drawing(c) ==
    LET cls == get_current_class(c)
        d == IF c.drawing /\ c.current_shape # None /\ cls # ""
             THEN LET e == save_state([ c EXCEPT !.obj[c.current_shape].class_id = cls ])
                  IN  [ e EXCEPT !.shapes = Append(@, c.current_shape) ]
             ELSE c
    IN  [ d EXCEPT !.drawing = FALSE, !.start_point = NoPos, !.current_shape = None ]

\* -------------------------------------------------------------------- move
\* A new list object for a shape's points: the old object is reused when
\* nothing else refers to it (the program cannot tell the difference).
BindPoints(c, r, pts) ==
    LET old == c.obj[r].points
        shared == \E q \in 1..Len(c.obj) : q # r /\ c.obj[q].points = old
    IN  IF old # None /\ ~shared
        THEN [ c EXCEPT !.lists[old] = pts ]
        ELSE [ c EXCEPT !.lists = Append(@, pts), !.obj[r].points = Len(c.lists) + 1 ]

\* PolygonShape.move: self.points = [(nx + dx, ny + dy) ...], a new list.
Polygon_move(c, r, dx, dy) ==
    LET pts == PointsOf(c, c.obj[r])
    IN  BindPoints(c, r, [ i \in 1..Len(pts) |-> << pts[i][1] + dx, pts[i][2] + dy >> ])

\* AnnotationCanvas.start_move
start_move(c, r, pos) ==
    IF r = None \/ ~c.obj[r].selected THEN c
    ELSE LET s == c.obj[r]
         IN  [ c EXCEPT !.moving = TRUE, !.selected_shape = r,
                        !.gesture = "move",
                        !.move_start_pos = widget_to_image(c, pos),
                        !.move_original_positions =
                            IF HasXY(s) THEN << << s.x, s.y >> >>
                            ELSE IF HasCenter(s) THEN << << s.center_x, s.center_y >> >>
                            ELSE PointsOf(c, s) ]

\* AnnotationCanvas.update_move
update_move(c, pos) ==
    IF ~c.moving \/ c.selected_shape = None THEN c
    ELSE LET r == c.selected_shape
             s == c.obj[r]
             cur == widget_to_image(c, pos)
             px == cur[1] - c.move_start_pos[1]
             py == cur[2] - c.move_start_pos[2]
             d == IF HasXY(s)
                  THEN [ c EXCEPT !.obj[r].x = @ + NormX(c, s, px),
                                  !.obj[r].y = @ + NormY(c, s, py) ]
                  ELSE IF HasCenter(s)
                  THEN [ c EXCEPT !.obj[r].center_x = @ + NormX(c, s, px),
                                  !.obj[r].center_y = @ + NormY(c, s, py) ]
                  ELSE Polygon_move(c, r, PNormX(c, s, px), PNormY(c, s, py))
         IN  [ d EXCEPT !.move_start_pos = cur ]

\* AnnotationCanvas.finish_move
finish_move(c) ==
    LET d == IF c.moving /\ c.selected_shape # None THEN save_state(c) ELSE c
    IN  [ d EXCEPT !.moving = FALSE, !.move_start_pos = NoPos,
                   !.move_original_positions = << >> ]

\* AnnotationCanvas.cancel_move
cancel_move(c) ==
    LET r == c.selected_shape
        mop == c.move_original_positions
        d == IF c.moving /\ r # None /\ mop # << >>
             THEN IF HasXY(c.obj[r])
                  THEN [ c EXCEPT !.obj[r].x = mop[1][1], !.obj[r].y = mop[1][2] ]
                  ELSE IF HasCenter(c.obj[r])
                  THEN [ c EXCEPT !.obj[r].center_x = mop[1][1],
                                  !.obj[r].center_y = mop[1][2] ]
                  ELSE BindPoints(c, r, mop)
             ELSE c
    IN  [ d EXCEPT !.moving = FALSE, !.move_start_pos = NoPos,
                   !.move_original_positions = << >>,
                   !.gesture = "cancel_move" ]

\* --------------------------------------------------------------- clipboard
\* AnnotationCanvas.copy_selected
copy_selected(c) ==
    IF c.selected_shape # None
    THEN [ copy(c, c.selected_shape) EXCEPT !.clipboard_shape = Len(c.obj) + 1,
                                            !.ret = << "copy_selected", TRUE >> ]
    ELSE [ c EXCEPT !.ret = << "copy_selected", FALSE >> ]

\* sum(p[k] for p in points)
RECURSIVE SumCoord(_, _)
SumCoord(pts, k) ==
    IF pts = << >> THEN 0 ELSE Head(pts)[k] + SumCoord(Tail(pts), k)

\* AnnotationCanvas.start_paste
start_paste(c, pos) ==
    IF c.clipboard_shape = None THEN [ c EXCEPT !.ret = << "start_paste", FALSE >> ]
    ELSE LET c1 == copy(c, c.clipboard_shape)
             r == Len(c1.obj)
             s == c1.obj[r]
             ip == widget_to_image(c1, pos)
             c2 == [ c1 EXCEPT !.paste_shape = r, !.pasting = TRUE,
                               !.paste_confirmed = FALSE ]
             c3 == IF HasXY(s)
                   THEN [ c2 EXCEPT !.obj[r].x = NormX(c2, s, ip[1]),
                                    !.obj[r].y = NormY(c2, s, ip[2]) ]
                   ELSE IF HasCenter(s)
                   THEN [ c2 EXCEPT !.obj[r].center_x = NormX(c2, s, ip[1]),
                                    !.obj[r].center_y = NormY(c2, s, ip[2]) ]
                   ELSE LET pts == PointsOf(c2, s)
                        IN  IF pts = << >> THEN c2
                            ELSE Polygon_move(c2, r,
                                   PNormX(c2, s, ip[1]) - SumCoord(pts, 1) \div Len(pts),
                                   PNormY(c2, s, ip[2]) - SumCoord(pts, 2) \div Len(pts))
             c4 == IF c3.selected_shape # None
                   THEN [ c3 EXCEPT !.obj[c3.selected_shape].selected = FALSE,
                                    !.selected_shape = None ]
                   ELSE c3
         IN  [ c4 EXCEPT !.obj[r].selected = TRUE, !.selected_shape = r,
                         !.shapes = Append(@, r), !.ret = << "start_paste", TRUE >>,
                         !.gesture = "paste" ]

\* AnnotationCanvas.confirm_paste
confirm_paste(c) ==
    IF c.pasting /\ c.paste_shape # None
    THEN [ c EXCEPT !.pasting = FALSE, !.resizing_handle = "",
                    !.paste_start_pos = NoPos, !.paste_confirmed = TRUE,
                    !.ret = << "confirm_paste", TRUE >>,
                    !.gesture = "confirm_paste" ]
    ELSE [ c EXCEPT !.ret = << "confirm_paste", FALSE >> ]

\* A cancel_paste that ends the paste and keeps the pasted shape.
cancel_paste_keeping(c) ==
    IF c.pasting
    THEN [ c EXCEPT !.pasting = FALSE, !.paste_shape = None,
                    !.resizing_handle = "", !.paste_start_pos = NoPos,
                    !.selected_shape = None, !.ret = << "cancel_paste", TRUE >>,
                    !.gesture = "cancel_paste" ]
    ELSE [ c EXCEPT !.ret = << "cancel_paste", FALSE >> ]

\* AnnotationCanvas.cancel_paste
cancel_paste(c) ==
    IF c.pasting
    THEN [ c EXCEPT !.shapes = IF InSeq(c.paste_shape, @)
                               THEN RemoveFirst(@, c.paste_shape) ELSE @,
                    !.pasting = FALSE, !.paste_shape = None,
                    !.resizing_handle = "", !.paste_start_pos = NoPos,
                    !.selected_shape = None, !.ret = << "cancel_paste", TRUE >>,
                    !.gesture = "cancel_paste" ]
    ELSE [ c EXCEPT !.ret = << "cancel_paste", FALSE >> ]

\* ------------------------------------------------------------------ resize
\* AnnotationCanvas.get_resize_handle_at_pos: the first handle of the dict
\* whose widget square holds pos, "" for None.
get_resize_handle_at_pos(c, pos, r) ==
    IF r = None \/ ~c.obj[r].selected THEN ""
    ELSE LET hs == get_resize_handles(c.obj[r], PointsOf(c, c.obj[r]))
             half == handle_size \div 2
             over(i) == LET wx == hs[i][2][1] + c.offset_x
                            wy == hs[i][2][2] + c.offset_y
                        IN  /\ wx - half <= pos[1] /\ pos[1] <= wx + half
                            /\ wy - half <= pos[2] /\ pos[2] <= wy + half
             hit == { i \in 1..Len(hs) : over(i) }
         IN  IF hit = { } THEN ""
             ELSE hs[CHOOSE i \in hit : \A j \in hit : i <= j][1]

\* shape.resize_from_handle(handle, dx, dy) on object r of state c.
\* ret is the value mouseMoveEvent binds to result.
resize_from_handle(c, r, h, dx, dy) ==
    LET s == c.obj[r]
        res == CASE s.type = "box" -> Box_resize_from_handle(s, h, dx, dy)
                 [] s.type = "circle" -> Circle_resize_from_handle(s, h, dx, dy)
                 [] s.type = "ellipse" -> Ellipse_resize_from_handle(s, h, dx, dy)
                 [] OTHER -> Polygon_resize_from_handle(PointsOf(c, s), h, dx, dy)
        d == IF s.type = "polygon"
             THEN IF s.points = None THEN c
                  ELSE [ c EXCEPT !.lists[s.points] = res[2] ]
             ELSE [ c EXCEPT !.obj[r] = res[2] ]
    IN  [ d EXCEPT !.ret = << "resize_from_handle", res[1] >> ]

\* --------------------------------------------------------------- drag-copy
\* AnnotationCanvas.start_drag_copy
start_drag_copy(c, r, pos) ==
    IF r = None THEN c
    ELSE LET c1 == copy(c, r)
             k == Len(c1.obj)
         IN  [ c1 EXCEPT !.drag_copy_shape = k, !.drag_copy = TRUE,
                         !.original_shape = r,
                         !.drag_start_pos = widget_to_image(c1, pos),
                         !.obj[r].selected = FALSE,
                         !.shapes = Append(@, k),
                         !.obj[k].selected = TRUE,
                         !.selected_shape = k, !.gesture = "drag_copy" ]

\* AnnotationCanvas.update_drag_copy
update_drag_copy(c, pos) ==
    IF c.drag_copy /\ c.drag_copy_shape # None
    THEN LET r == c.drag_copy_shape
             s == c.obj[r]
             ip == widget_to_image(c, pos)
         IN  IF HasXY(s)
             THEN [ c EXCEPT !.obj[r].x = NormX(c, s, ip[1]),
                             !.obj[r].y = NormY(c, s, ip[2]) ]
             ELSE IF HasCenter(s)
             THEN [ c EXCEPT !.obj[r].center_x = NormX(c, s, ip[1]),
                             !.obj[r].center_y = NormY(c, s, ip[2]) ]
             ELSE IF c.drag_start_pos # NoPos
             THEN [ Polygon_move(c, r, PNormX(c, s, ip[1] - c.drag_start_pos[1]),
                                       PNormY(c, s, ip[2] - c.drag_start_pos[2]))
                      EXCEPT !.drag_start_pos = ip ]
             ELSE c
    ELSE c

\* AnnotationCanvas.finish_drag_copy
finish_drag_copy(c) ==
    IF c.drag_copy /\ c.drag_copy_shape # None
    THEN [ save_state(c) EXCEPT !.drag_copy = FALSE, !.drag_copy_shape = None,
                                !.drag_start_pos = NoPos, !.original_shape = None,
                                !.resizing = FALSE ]
    ELSE c

\* A cancel_drag_copy that records the cancellation in the history.
cancel_drag_copy_saving(c) ==
    IF c.drag_copy /\ c.drag_copy_shape # None
    THEN [ save_state(c) EXCEPT !.drag_copy = FALSE, !.drag_copy_shape = None,
                                !.gesture = "cancel_drag_copy" ]
    ELSE c

\* A cancel_drag_copy that ends the drag-copy and keeps the clone.
cancel_drag_copy_keeping(c) ==
    IF c.drag_copy /\ c.drag_copy_shape # None
    THEN LET c2 == IF c.original_shape # None
                   THEN [ c EXCEPT !.obj[c.original_shape].selected = TRUE,
                                   !.selected_shape = c.original_shape ]
                   ELSE [ c EXCEPT !.selected_shape = None ]
         IN  [ c2 EXCEPT !.drag_copy = FALSE, !.drag_copy_shape = None,
                         !.drag_start_pos = NoPos, !.original_shape = None,
                         !.resizing = FALSE, !.resizing_handle = "",
                         !.pasting = FALSE, !.gesture = "cancel_drag_copy" ]
    ELSE c

\* AnnotationCanvas.cancel_drag_copy
cancel_drag_copy(c) ==
    IF c.drag_copy /\ c.drag_copy_shape # None
    THEN LET c1 == [ c EXCEPT !.shapes = IF InSeq(c.drag_copy_shape, @)
                                         THEN RemoveFirst(@, c.drag_copy_shape)
                                         ELSE @ ]
             c2 == IF c1.original_shape # None
                   THEN [ c1 EXCEPT !.obj[c1.original_shape].selected = TRUE,
                                    !.selected_shape = c1.original_shape ]
                   ELSE [ c1 EXCEPT !.selected_shape = None ]
         IN  [ c2 EXCEPT !.drag_copy = FALSE, !.drag_copy_shape = None,
                         !.drag_start_pos = NoPos, !.original_shape = None,
                         !.resizing = FALSE, !.resizing_handle = "",
                         !.pasting = FALSE, !.gesture = "cancel_drag_copy" ]
    ELSE c

\* ------------------------------------------- polygon, circle, ellipse tools
\* AnnotationCanvas.finish_polygon: get_current_class().id raises
\* AttributeError when no class is active.
finish_polygon(c) ==
    IF Len(c.polygon_points) >= 3
    THEN IF get_current_class(c) = "" THEN [ c EXCEPT !.raised = TRUE ]
         ELSE LET pp == c.polygon_points
                  \* PolygonShape.from_pixel_points, then close_polygon
                  poly == [ BlankShape("polygon", get_current_class(c),
                                       c.image_width, c.image_height)
                              EXCEPT !.points = Len(c.lists) + 1, !.closed = TRUE ]
                  c1 == [ c EXCEPT !.obj = Append(@, poly),
                                   !.lists = Append(@, [ i \in 1..Len(pp) |->
                                       << 120 * pp[i][1], 120 * pp[i][2] >> ]) ]
                  c2 == save_state(c1)
              IN  [ c2 EXCEPT !.shapes = Append(@, Len(c1.obj)),
                              !.polygon_points = << >> ]
    ELSE [ c EXCEPT !.polygon_points = << >> ]

\* AnnotationCanvas.cancel_polygon
cancel_polygon(c) ==
    [ c EXCEPT !.polygon_points = << >>, !.gesture = "cancel_polygon" ]

\* A start_polygon_drawing whose closing click is also kept as a vertex.
start_polygon_drawing_appending(c, pos) ==
    IF get_current_class(c) = "" THEN c
    ELSE LET ip == widget_to_image(c, pos)
             c1 == [ c EXCEPT !.polygon_points = Append(@, ip) ]
         IN  IF c.polygon_points = << >> THEN c1
             ELSE LET f == c.polygon_points[1]
                      d2 == (ip[1] - f[1]) * (ip[1] - f[1])
                              + (ip[2] - f[2]) * (ip[2] - f[2])
                  IN  IF d2 < closure_threshold * closure_threshold
                         /\ Len(c.polygon_points) >= 3
                      THEN [ finish_polygon(c1) EXCEPT !.gesture = "close_polygon" ]
                      ELSE c1

\* AnnotationCanvas.start_polygon_drawing
start_polygon_drawing(c, pos) ==
    IF get_current_class(c) = "" THEN c
    ELSE LET ip == widget_to_image(c, pos)
         IN  IF c.polygon_points = << >>
             THEN [ c EXCEPT !.polygon_points = << ip >> ]
             ELSE LET f == c.polygon_points[1]
                      d2 == (ip[1] - f[1]) * (ip[1] - f[1])
                              + (ip[2] - f[2]) * (ip[2] - f[2])
                  IN  \* math.sqrt(d2) < 20
                      IF d2 < closure_threshold * closure_threshold
                         /\ Len(c.polygon_points) >= 3
                      THEN [ finish_polygon(c) EXCEPT !.gesture = "close_polygon" ]
                      ELSE [ c EXCEPT !.polygon_points = Append(@, ip) ]

\* A start_circle_drawing that does not ask for an active class.
start_circle_drawing_unchecked(c, pos) ==
    [ c EXCEPT !.circle_center = widget_to_image(c, pos), !.circle_radius = 0 ]

\* AnnotationCanvas.start_circle_drawing
start_circle_drawing(c, pos) ==
    IF get_current_class(c) = "" THEN c
    ELSE [ c EXCEPT !.circle_center = widget_to_image(c, pos), !.circle_radius = 0 ]

\* AnnotationCanvas.update_circle_drawing
update_circle_drawing(c, pos) ==
    IF c.circle_center = NoPos THEN c
    ELSE LET cur == widget_to_image(c, pos)
             dx == cur[1] - c.circle_center[1]
             dy == cur[2] - c.circle_center[2]
         IN  [ c EXCEPT !.circle_radius = ISqrt(dx * dx + dy * dy) ]

\* AnnotationCanvas.finish_circle
finish_circle(c) ==
    IF c.circle_center # NoPos /\ c.circle_radius > min_radius
    THEN IF get_current_class(c) = "" THEN [ c EXCEPT !.raised = TRUE ]
         ELSE LET circle == Circle_from_pixels(
                                BlankShape("circle", get_current_class(c),
                                           c.image_width, c.image_height),
                                c.circle_center[1], c.circle_center[2],
                                c.circle_radius)
                  c1 == [ c EXCEPT !.obj = Append(@, circle) ]
              IN  [ save_state(c1) EXCEPT !.shapes = Append(@, Len(c1.obj)),
                                          !.circle_center = NoPos,
                                          !.circle_radius = 0 ]
    ELSE [ c EXCEPT !.circle_center = NoPos, !.circle_radius = 0 ]

\* AnnotationCanvas.cancel_circle
cancel_circle(c) ==
    [ c EXCEPT !.circle_center = NoPos, !.circle_radius = 0,
               !.gesture = "cancel_circle" ]

\* AnnotationCanvas.start_ellipse_drawing
start_ellipse_drawing(c, pos) ==
    IF get_current_class(c) = "" THEN c
    ELSE [ c EXCEPT !.ellipse_center = widget_to_image(c, pos),
                    !.ellipse_radius_x = 0, !.ellipse_radius_y = 0 ]

\* AnnotationCanvas.update_ellipse_drawing
update_ellipse_drawing(c, pos) ==
    IF c.ellipse_center = NoPos THEN c
    ELSE LET cur == widget_to_image(c, pos)
         IN  [ c EXCEPT !.ellipse_radius_x = Abs(cur[1] - c.ellipse_center[1]),
                        !.ellipse_radius_y = Abs(cur[2] - c.ellipse_center[2]) ]

\* AnnotationCanvas.finish_ellipse
finish_ellipse(c) ==
    IF c.ellipse_center # NoPos /\ c.ellipse_radius_x > min_radius
                               /\ c.ellipse_radius_y > min_radius
    THEN IF get_current_class(c) = "" THEN [ c EXCEPT !.raised = TRUE ]
         ELSE LET ellipse == Ellipse_from_pixels(
                                 BlankShape("ellipse", get_current_class(c),
                                            c.image_width, c.image_height),
                                 c.ellipse_center[1], c.ellipse_center[2],
                                 c.ellipse_radius_x, c.ellipse_radius_y)
                  c1 == [ c EXCEPT !.obj = Append(@, ellipse) ]
              IN  [ save_state(c1) EXCEPT !.shapes = Append(@, Len(c1.obj)),
                                          !.ellipse_center = NoPos,
                                          !.ellipse_radius_x = 0,
                                          !.ellipse_radius_y = 0 ]
    ELSE [ c EXCEPT !.ellipse_center = NoPos, !.ellipse_radius_x = 0,
                    !.ellipse_radius_y = 0 ]

\* AnnotationCanvas.cancel_ellipse
cancel_ellipse(c) ==
    [ c EXCEPT !.ellipse_center = NoPos, !.ellipse_radius_x = 0,
               !.ellipse_radius_y = 0, !.gesture = "cancel_ellipse" ]

\* ----------------------------------------------------------- event handlers
\* AnnotationCanvas.mousePressEvent; button is "left" or "middle", ctrl is
\* whether the keyboard modifiers are exactly Ctrl.
mousePressEvent(c, pos, button, ctrl) ==
    IF button = "middle" \/ (button = "left" /\ c.pan_mode)
    THEN [ c EXCEPT !.dragging = TRUE, !.last_mouse_pos = pos ]
    ELSE IF ~c.pixmap THEN c
    ELSE LET handle == get_resize_handle_at_pos(c, pos, c.selected_shape)
             clicked_shape == ShapeAt(c, widget_to_image(c, pos))
         IN  IF c.selected_shape # None /\ handle # ""
             THEN \* FIRST: a resize handle of the selected shape
                  [ c EXCEPT !.resizing = TRUE, !.resizing_handle = handle,
                             !.gesture = "resize",
                             !.resize_start_pos = widget_to_image(c, pos),
                             !.obj[c.selected_shape] =
                                 IF HasBeginResize(@) THEN begin_resize(@) ELSE @ ]
             ELSE IF clicked_shape # None
             THEN \* SECOND: a shape, for drag-copy, moving or selecting
                  IF ctrl THEN start_drag_copy(c, clicked_shape, pos)
                  ELSE IF c.obj[clicked_shape].selected
                  THEN start_move(c, clicked_shape, pos)
                  ELSE select_shape(c, pos)
             ELSE IF c.current_shape_type # "none"
             THEN LET d == [ c EXCEPT !.gesture = IF get_current_class(c) = ""
                                                  THEN "no_class" ELSE @ ]
                  IN  CASE d.current_shape_type = "polygon" -> start_polygon_drawing(d, pos)
                        [] d.current_shape_type = "circle" -> start_circle_drawing(d, pos)
                        [] d.current_shape_type = "ellipse" -> start_ellipse_drawing(d, pos)
                        [] OTHER -> start_drawing(d, pos)
             ELSE select_shape(c, pos)

\* The tests of mouseMoveEvent that lead to its resizing branch.
InResizeBranch(c) ==
    /\ ~(c.dragging /\ c.last_mouse_pos # NoPos)
    /\ ~(c.moving /\ ~c.resizing)
    /\ ~c.drawing
    /\ ~(c.drag_copy /\ ~c.resizing)
    /\ ~(c.current_shape_type = "circle" /\ c.circle_center # NoPos)
    /\ ~(c.current_shape_type = "ellipse" /\ c.ellipse_center # NoPos)
    /\ c.resizing /\ c.resizing_handle # "" /\ c.selected_shape # None

\* AnnotationCanvas.mouseMoveEvent
mouseMoveEvent(c, pos) ==
    IF c.dragging /\ c.last_mouse_pos # NoPos
    THEN [ c EXCEPT !.offset_x = @ + pos[1] - c.last_mouse_pos[1],
                    !.offset_y = @ + pos[2] - c.last_mouse_pos[2],
                    !.last_mouse_pos = pos ]
    ELSE IF c.moving /\ ~c.resizing THEN update_move(c, pos)
    ELSE IF c.drawing THEN update_drawing(c, pos)
    ELSE IF c.drag_copy /\ ~c.resizing THEN update_drag_copy(c, pos)
    ELSE IF c.current_shape_type = "circle" /\ c.circle_center # NoPos
    THEN update_circle_drawing(c, pos)
    ELSE IF c.current_shape_type = "ellipse" /\ c.ellipse_center # NoPos
    THEN update_ellipse_drawing(c, pos)
    ELSE IF InResizeBranch(c)
    THEN LET cur == widget_to_image(c, pos)
         IN  resize_from_handle(c, c.selected_shape, c.resizing_handle,
                                cur[1] - c.resize_start_pos[1],
                                cur[2] - c.resize_start_pos[2])
    ELSE c

\* AnnotationCanvas.mouseReleaseEvent
mouseReleaseEvent(c, button) ==
    IF button = "middle" \/ (button = "left" /\ c.dragging)
    THEN [ c EXCEPT !.dragging = FALSE ]
    ELSE LET d == IF c.moving THEN finish_move(c)
                  ELSE IF c.drawing THEN finish_drawing(c)
                  ELSE IF c.drag_copy THEN finish_drag_copy(c)
                  ELSE IF c.current_shape_type = "circle" /\ c.circle_center # NoPos
                  THEN finish_circle(c)
                  ELSE IF c.current_shape_type = "ellipse" /\ c.ellipse_center # NoPos
                  THEN finish_ellipse(c)
                  ELSE IF c.resizing
                  THEN [ c EXCEPT !.resizing = FALSE, !.resizing_handle = "",
                                  !.resize_start_pos = NoPos,
                                  !.obj = IF c.selected_shape # None
                                             /\ c.obj[c.selected_shape].has_origin
                                          THEN [ @ EXCEPT ![c.selected_shape].resize_origin
                                                              = NoPos ]
                                          ELSE @ ]
                  ELSE c
         IN  \* a handler that raised does not reach the last two statements
             IF d.raised THEN d
             ELSE [ d EXCEPT !.drag_copy = FALSE, !.pasting = FALSE ]

\* AnnotationCanvas.keyPressEvent, one operator per key it tests for.
key_space(c) == [ c EXCEPT !.pan_mode = ~@ ]

key_escape(c) ==
    IF c.pan_mode THEN [ c EXCEPT !.pan_mode = FALSE ]
    ELSE IF c.moving THEN cancel_move(c)
    ELSE IF c.drag_copy THEN cancel_drag_copy(c)
    ELSE IF c.drawing
    THEN [ c EXCEPT !.drawing = FALSE, !.current_shape = None,
                    !.gesture = "cancel_drawing" ]
    ELSE IF c.polygon_points # << >> THEN cancel_polygon(c)
    ELSE IF c.circle_center # NoPos THEN cancel_circle(c)
    ELSE IF c.ellipse_center # NoPos THEN cancel_ellipse(c)
    ELSE c

key_return(c) ==
    IF c.polygon_points # << >> THEN finish_polygon(c) ELSE c

key_delete(c) ==
    IF ~c.drag_copy /\ ~c.pan_mode /\ ~c.moving THEN delete_selected(c) ELSE c

key_paste(c, cursor_pos) ==
    IF c.clipboard_shape # None /\ c.pixmap THEN start_paste(c, cursor_pos) ELSE c

\* MainWindow.paste_shape: the Edit menu's Paste, at the centre of the canvas
\* widget (taken to be as large as the image).
menu_paste(c) ==
    IF c.pixmap
    THEN start_paste(c, << c.image_width \div 2, c.image_height \div 2 >>)
    ELSE c

\* AnnotationCanvas.fit_to_window: the view is centred again; the scale it
\* computes is taken to be 1.0 and the centring offset 0.
fit_to_window(c) == [ c EXCEPT !.offset_x = 0, !.offset_y = 0 ]

\* A load_image that keeps the selection reference.
load_image_selected(c, img) ==
    [ fit_to_window(
        reset_all_states([ c EXCEPT !.pixmap = TRUE, !.image_width = img[1],
                                    !.image_height = img[2], !.shapes = << >> ]))
        EXCEPT !.gesture = "load_image" ]

\* AnnotationCanvas.load_image of an image that decodes, of size img.
load_image(c, img) ==
    [ fit_to_window(
        reset_all_states([ c EXCEPT !.pixmap = TRUE, !.image_width = img[1],
                                    !.image_height = img[2], !.shapes = << >>,
                                    !.selected_shape = None ]))
        EXCEPT !.gesture = "load_image" ]

\* AnnotationCanvas.set_mode
set_mode(c) == reset_all_states(c)

\* ClassManager.set_current_class
set_current_class(c, id) ==
    IF id \in c.classes THEN [ c EXCEPT !.current_class_id = id ] ELSE c

\* ClassManager.remove_class
remove_class(c, id) ==
    [ c EXCEPT !.classes = @ \ { id },
               !.current_class_id = IF @ = id THEN "" ELSE @ ]

\* ------------------------------------------------------- history variables
\* The geometry of a shape object: its class, every coordinate it stores and,
\* for a polygon, the value of its points list.
GeomOf(c, r) ==
    LET s == c.obj[r]
    IN  [ type |-> s.type, class_id |-> s.class_id, x |-> s.x, y |-> s.y, width |-> s.width,
          height |-> s.height, center_x |-> s.center_x, center_y |-> s.center_y,
          radius |-> s.radius, radius_x |-> s.radius_x, radius_y |-> s.radius_y,
          points |-> PointsOf(c, s), closed |-> s.closed ]

\* The geometry of the live collection, in order.
CollectionGeom(c) == [ i \in 1..Len(c.shapes) |-> GeomOf(c, c.shapes[i]) ]

\* ------------------------------------------------------------------- events
\* The state an event other than a pointer move is handled in: what the
\* earlier events amounted to is forgotten.
Fresh(c) == [ c EXCEPT !.gesture = "", !.gesture_pos = << >> ]

\* The operations a press or a paste starts and pointer moves continue.
InFlight == { "move", "drag_copy", "resize", "paste" }

\* Each event is the handler the toolkit calls for it, with the pointer's
\* buttons and the history variables kept up to date.
LeftPressEvent(c, p, ctrl) ==
    [ mousePressEvent(Fresh(c), p, "left", ctrl) EXCEPT
        !.left_down = TRUE, !.pre_gesture = CollectionGeom(c),
        !.committed = FALSE, !.before_undo = << >> ]

MiddlePressEvent(c, p) ==
    [ mousePressEvent(Fresh(c), p, "middle", FALSE) EXCEPT
        !.middle_down = TRUE, !.committed = FALSE, !.before_undo = << >> ]

MouseMoveEvent(c, p) ==
    IF c.gesture \in InFlight
    THEN [ mouseMoveEvent(c, p) EXCEPT !.committed = FALSE, !.before_undo = << >>,
                                       !.gesture_pos = p ]
    ELSE [ mouseMoveEvent(Fresh(c), p) EXCEPT !.committed = FALSE,
                                              !.before_undo = << >> ]

LeftReleaseEvent(c) ==
    LET n == mouseReleaseEvent(Fresh(c), "left")
    IN  [ n EXCEPT !.left_down = FALSE,
                   !.committed = ~c.dragging /\ ~n.raised
                                   /\ CollectionGeom(n) # c.pre_gesture,
                   !.before_undo = << >> ]

MiddleReleaseEvent(c) ==
    [ mouseReleaseEvent(Fresh(c), "middle") EXCEPT
        !.middle_down = FALSE, !.committed = FALSE, !.before_undo = << >> ]

\* Delete or Backspace in the canvas (key_delete) and Edit > Delete
\* (MainWindow.delete_selected, which calls the canvas directly).
DeleteEvent(c, menu) ==
    LET n == IF menu THEN delete_selected(Fresh(c)) ELSE key_delete(Fresh(c))
    IN  [ n EXCEPT !.pre_gesture = CollectionGeom(c),
                   !.committed = ~n.raised /\ CollectionGeom(n) # CollectionGeom(c),
                   !.before_undo = << >> ]

\* Ctrl+Z and Edit > Undo
UndoEvent(c) ==
    LET n == undo(Fresh(c))
    IN  [ n EXCEPT !.committed = FALSE,
                   !.before_undo = IF n.ret[2]
                                   THEN << c.shapes, CollectionGeom(c) >>
                                   ELSE << >> ]

\* Any other event.
OtherEvent(n) == [ n EXCEPT !.committed = FALSE, !.before_undo = << >> ]

\* ------------------------------------------------------------------ actions
\* The bounds of the exploration: an event is taken only when the state it
\* leads to stays within them.
InBounds(n) ==
    /\ Len(n.obj) <= MaxId
    /\ Len(n.lists) <= MaxLists
    /\ Len(n.polygon_points) <= MaxPoints
    /\ Abs(n.offset_x) <= MaxPan /\ Abs(n.offset_y) <= MaxPan

\* An event ev whose handler takes state State to state n.  An uncaught
\* exception in a handler ends the application: nothing follows it.  While
\* the opening lasts the event is the next one of the opening; after it,
\* any event that keeps the state within the bounds.
Handle(ev, n) ==
    /\ ~raised
    /\ IF script = << >>
       THEN steps < MaxEvents /\ InBounds(n)
       ELSE Head(script) = ev
    /\ Becomes([ n EXCEPT !.steps = IF script = << >> THEN steps + 1 ELSE 0,
                          !.script = IF script = << >> THEN << >> ELSE Tail(script) ])

NoArg == << 0, 0 >>
Mod(ctrl) == IF ctrl THEN "ctrl" ELSE ""

LeftPress(p, ctrl) ==
    ~left_down /\ Handle(<< "LeftPress", p, Mod(ctrl) >>, LeftPressEvent(State, p, ctrl))
MiddlePress(p) ==
    ~middle_down /\ Handle(<< "MiddlePress", p, "" >>, MiddlePressEvent(State, p))
MouseMove(p) == Handle(<< "MouseMove", p, "" >>, MouseMoveEvent(State, p))
LeftRelease ==
    left_down /\ Handle(<< "LeftRelease", NoArg, "" >>, LeftReleaseEvent(State))
MiddleRelease ==
    middle_down /\ Handle(<< "MiddleRelease", NoArg, "" >>, MiddleReleaseEvent(State))
KeySpace == Handle(<< "KeySpace", NoArg, "" >>, OtherEvent(key_space(Fresh(State))))
KeyEscape == Handle(<< "KeyEscape", NoArg, "" >>, OtherEvent(key_escape(Fresh(State))))
KeyReturn == Handle(<< "KeyReturn", NoArg, "" >>, OtherEvent(key_return(Fresh(State))))
KeyDelete == Handle(<< "KeyDelete", NoArg, "" >>, DeleteEvent(State, FALSE))
MenuDelete == Handle(<< "MenuDelete", NoArg, "" >>, DeleteEvent(State, TRUE))
Undo == Handle(<< "Undo", NoArg, "" >>, UndoEvent(State))
\* Ctrl+Y and Edit > Redo; Ctrl+C and Edit > Copy
Redo == Handle(<< "Redo", NoArg, "" >>, OtherEvent(redo(Fresh(State))))
Copy == Handle(<< "Copy", NoArg, "" >>, OtherEvent(copy_selected(Fresh(State))))
KeyPaste(p) == Handle(<< "KeyPaste", p, "" >>, OtherEvent(key_paste(Fresh(State), p)))
MenuPaste == Handle(<< "MenuPaste", NoArg, "" >>, OtherEvent(menu_paste(Fresh(State))))
\* MainWindow.set_shape_type from the tool buttons
SetShapeType(t) ==
    Handle(<< "SetShapeType", NoArg, t >>, OtherEvent(set_shape_type(Fresh(State), t)))
SetMode == Handle(<< "SetMode", NoArg, "" >>, OtherEvent(set_mode(Fresh(State))))
\* ClassPanel.select_class and ClassPanel.delete_class
SelectClass(id) ==
    Handle(<< "SelectClass", NoArg, id >>, OtherEvent(set_current_class(Fresh(State), id)))
DeleteClass(id) ==
    Handle(<< "DeleteClass", NoArg, id >>, OtherEvent(remove_class(Fresh(State), id)))
LoadImage(img) == Handle(<< "LoadImage", img, "" >>, OtherEvent(load_image(Fresh(State), img)))

Next ==
    \/ \E p \in Positions, ctrl \in BOOLEAN : LeftPress(p, ctrl)
    \/ \E p \in Positions : MiddlePress(p)
    \/ \E p \in Positions : MouseMove(p)
    \/ LeftRelease
    \/ MiddleRelease
    \/ KeySpace
    \/ KeyEscape
    \/ KeyReturn
    \/ KeyDelete
    \/ MenuDelete
    \/ Undo
    \/ Redo
    \/ Copy
    \/ \E p \in Positions : KeyPaste(p)
    \/ MenuPaste
    \/ \E t \in ShapeTypes : SetShapeType(t)
    \/ SetMode
    \/ \E id \in ClassInputs : SelectClass(id)
    \/ \E id \in ClassInputs : DeleteClass(id)
    \/ \E img \in Images : LoadImage(img)

\* ---------------------------------------------------------- initial states
\* Openings: event sequences the user makes after construction.
Click(p) == << << "LeftPress", p, "" >>, << "LeftRelease", NoArg, "" >> >>
Drag(p, q) ==
    << << "LeftPress", p, "" >>, << "MouseMove", q, "" >>,
       << "LeftRelease", NoArg, "" >> >>

\* An image is loaded and a class is active; the tool is the box tool.
Ready == << << "LoadImage", << 32, 32 >>, "" >>, << "SelectClass", NoArg, "Car" >> >>
\* One box (4,4)-(20,20) is drawn.
OneBox == Ready \o Drag(<< 4, 4 >>, << 20, 20 >>)
\* ... and selected by a click inside it.
OneBoxSelected == OneBox \o Click(<< 10, 10 >>)
\* A second box (20,20)-(28,28) is drawn.
TwoBoxes == OneBox \o Drag(<< 28, 28 >>, << 20, 20 >>)
\* One circle, centre (20,20) and radius 11, is drawn and selected.
OneCircleSelected ==
    Ready \o << << "SetShapeType", NoArg, "circle" >> >>
          \o Drag(<< 20, 20 >>, << 28, 28 >>) \o Click(<< 20, 20 >>)
\* One triangle (4,4) (28,4) (4,28) is drawn, closed with Enter and selected.
OnePolygonSelected ==
    Ready \o << << "SetShapeType", NoArg, "polygon" >> >>
          \o Click(<< 4, 4 >>) \o Click(<< 28, 4 >>) \o Click(<< 4, 28 >>)
          \o << << "KeyReturn", NoArg, "" >> >> \o Click(<< 10, 10 >>)

\* The selected box's top_left handle is pressed, the middle button is
\* pressed and the left button released: the release ends the pan only.
ResizeInterrupted ==
    OneBoxSelected \o << << "LeftPress", << 4, 4 >>, "" >>,
                         << "MiddlePress", << 4, 4 >>, "" >>,
                         << "LeftRelease", NoArg, "" >> >>
\* The same with the press inside the selected box, which starts a move.
MoveInterrupted ==
    OneBoxSelected \o << << "LeftPress", << 10, 10 >>, "" >>,
                         << "MiddlePress", << 10, 10 >>, "" >>,
                         << "LeftRelease", NoArg, "" >> >>

\* Three vertices (4,4) (28,4) (4,28) of a polygon are clicked.
ThreeVertices ==
    Ready \o << << "SetShapeType", NoArg, "polygon" >> >>
          \o Click(<< 4, 4 >>) \o Click(<< 28, 4 >>) \o Click(<< 4, 28 >>)

Openings ==
    { << >>, Ready, OneBox, OneBoxSelected, TwoBoxes, OneCircleSelected,
      OnePolygonSelected, ResizeInterrupted, MoveInterrupted, ThreeVertices }

\* The program is in state c.
StartsAt(c) ==
    /\ pixmap = c.pixmap /\ image_width = c.image_width
    /\ image_height = c.image_height
    /\ current_shape_type = c.current_shape_type
    /\ polygon_points = c.polygon_points
    /\ circle_center = c.circle_center /\ circle_radius = c.circle_radius
    /\ ellipse_center = c.ellipse_center
    /\ ellipse_radius_x = c.ellipse_radius_x
    /\ ellipse_radius_y = c.ellipse_radius_y
    /\ offset_x = c.offset_x /\ offset_y = c.offset_y
    /\ dragging = c.dragging /\ last_mouse_pos = c.last_mouse_pos
    /\ pan_mode = c.pan_mode
    /\ shapes = c.shapes /\ drawing = c.drawing /\ start_point = c.start_point
    /\ current_shape = c.current_shape /\ selected_shape = c.selected_shape
    /\ resizing = c.resizing /\ resizing_handle = c.resizing_handle
    /\ resize_start_pos = c.resize_start_pos
    /\ drag_copy = c.drag_copy /\ drag_copy_shape = c.drag_copy_shape
    /\ drag_start_pos = c.drag_start_pos /\ original_shape = c.original_shape
    /\ clipboard_shape = c.clipboard_shape /\ pasting = c.pasting
    /\ paste_shape = c.paste_shape /\ paste_start_pos = c.paste_start_pos
    /\ paste_confirmed = c.paste_confirmed
    /\ undo_stack = c.undo_stack /\ redo_stack = c.redo_stack
    /\ moving = c.moving /\ move_start_pos = c.move_start_pos
    /\ move_original_positions = c.move_original_positions
    /\ classes = c.classes /\ current_class_id = c.current_class_id
    /\ obj = c.obj /\ lists = c.lists
    /\ left_down = c.left_down /\ middle_down = c.middle_down
    /\ ret = c.ret /\ raised = c.raised
    /\ steps = 0 /\ pre_gesture = c.pre_gesture
    /\ committed = c.committed /\ before_undo = c.before_undo
    /\ evicted = c.evicted /\ gesture = c.gesture /\ script = c.script
    /\ gesture_pos = c.gesture_pos

Init == \E sc \in Openings : StartsAt([ Constructed EXCEPT !.script = sc ])

Spec == Init /\ [][Next]_vars

\* The canvas's methods confirm_paste and cancel_paste, called directly: no
\* key, menu entry or pointer event of the program calls them.
ConfirmPaste ==
    Handle(<< "ConfirmPaste", NoArg, "" >>, OtherEvent(confirm_paste(Fresh(State))))
CancelPaste ==
    Handle(<< "CancelPaste", NoArg, "" >>, OtherEvent(cancel_paste(Fresh(State))))

ApiNext == Next \/ ConfirmPaste \/ CancelPaste

\* The program with a caller of these two methods added.
ApiSpec == Init /\ [][ApiNext]_vars

\* ------------------------------------------------ images of another size
\* The program with a second image file to load, smaller than the first.
OtherImages == { << 16, 16 >> }
ReloadNext == Next \/ \E img \in OtherImages : LoadImage(img)
ReloadSpec == Init /\ [][ReloadNext]_vars

\* ------------------------------------------------- the shape classes alone
\* begin_resize and resize_from_handle called on one shape of a 32x32 or an
\* 8x8 image, as mousePressEvent and mouseMoveEvent call them on the selected
\* shape.
\* Pixel deltas of a handle drag; the pointer may leave the image.
Deltas == { -40, -14, 0, 6, 30 }
\* Handle names passed, one of them no shape has.
HandleInputs == CornerHandles \cup { "center" }

\* Shapes a collection can hold: drawn inside the image, pasted across its
\* edge, a circle and an ellipse drawn larger than the image, and the
\* smallest circle and ellipse finish_circle and finish_ellipse accept, drawn
\* on an 8x8 image.
InputShapes ==
    LET box == BlankShape("box", "Car", 32, 32)
        circle == BlankShape("circle", "Car", 32, 32)
        ellipse == BlankShape("ellipse", "Car", 32, 32)
    IN  { Box_from_pixels(box, b[1], b[2], b[3], b[4], 32, 32) :
            b \in { << 4, 4, 20, 20 >>, << 20, 20, 36, 36 >>, << -4, -4, 12, 12 >>,
                    << 10, 4, 28, 16 >> } }
        \cup { Circle_from_pixels(circle, c[1], c[2], c[3]) :
                 c \in { << 20, 20, 11 >>, << 16, 16, 20 >>, << 10, 10, 6 >> } }
        \cup { Ellipse_from_pixels(ellipse, e[1], e[2], e[3], e[4]) :
                 e \in { << 16, 16, 10, 6 >>, << 16, 16, 20, 7 >> } }
        \cup { Circle_from_pixels(BlankShape("circle", "Car", 8, 8), 4, 4, 6),
               Ellipse_from_pixels(BlankShape("ellipse", "Car", 8, 8), 4, 4, 6, 6) }

ShapeInit ==
    \E s \in InputShapes :
        StartsAt([ Constructed EXCEPT !.pixmap = TRUE, !.image_width = s.image_width,
                                      !.image_height = s.image_height,
                                      !.current_class_id = "Car",
                                      !.current_shape_type = "none",
                                      !.obj = << [ s EXCEPT !.selected = TRUE ] >>,
                                      !.shapes = << 1 >>, !.selected_shape = 1 ])

\* shape.begin_resize()
BeginResize ==
    /\ steps < MaxCalls
    /\ Becomes([ State EXCEPT !.obj[1] = begin_resize(obj[1]),
                              !.ret = << "begin_resize", TRUE >>,
                              !.steps = steps + 1 ])
\* shape.resize_from_handle(h, dx, dy)
ResizeFromHandle(h, dx, dy) ==
    /\ steps < MaxCalls
    /\ Becomes([ resize_from_handle(State, 1, h, dx, dy) EXCEPT !.steps = steps + 1 ])

ShapeNext ==
    \/ BeginResize
    \/ \E h \in HandleInputs, dx \in Deltas, dy \in Deltas : ResizeFromHandle(h, dx, dy)

ShapeSpec == ShapeInit /\ [][ShapeNext]_vars

\* -------------------------------------------- copy, to_dict and from_dict
\* Shape objects alone: copy() and from_dict(to_dict(), image_size) called
\* on any object made so far.
\* Polygons next to InputShapes: a closed triangle, an open polygon of two
\* points and a polygon with no points.
InputPolygons ==
    { << [ BlankShape("polygon", "Car", 32, 32) EXCEPT !.points = 1, !.closed = TRUE ],
         << << 480, 480 >>, << 3360, 480 >>, << 480, 3360 >> >> >>,
      << [ BlankShape("polygon", "Person", 32, 32) EXCEPT !.points = 1 ],
         << << 1200, 1200 >>, << 2400, 2400 >> >> >>,
      << [ BlankShape("polygon", "Car", 32, 32) EXCEPT !.points = 1, !.closed = TRUE ],
         << >> >> }

\* The image sizes passed to from_dict for an object stored at size
\* (iw, ih): the same image and one twice as large.
SizesFor(s) ==
    { << s.image_width, s.image_height >>, << 2 * s.image_width, 2 * s.image_height >> }

DictInit ==
    \/ \E s \in InputShapes, sel \in BOOLEAN :
          StartsAt([ Constructed EXCEPT !.obj = << [ s EXCEPT !.selected = sel ] >> ])
    \/ \E p \in InputPolygons :
          StartsAt([ Constructed EXCEPT !.obj = << p[1] >>, !.lists = << p[2] >> ])

\* shape.copy()
ShapeCopy(r) ==
    /\ steps < MaxCalls /\ r \in 1..Len(obj)
    /\ Becomes([ copy(State, r) EXCEPT !.ret = << "copy", r >>, !.steps = steps + 1 ])
\* cls.from_dict(shape.to_dict(), size)
FromDict(r, size) ==
    /\ steps < MaxCalls /\ r \in 1..Len(obj)
    /\ Becomes([ from_dict(State, to_dict(State, r), size)
                   EXCEPT !.ret = << "from_dict", r >>, !.steps = steps + 1 ])
\* shape.begin_resize(), for the classes that have it
ShapeBeginResize(r) ==
    /\ steps < MaxCalls /\ r \in 1..Len(obj) /\ obj[r].has_origin
    /\ Becomes([ State EXCEPT !.obj[r] = begin_resize(obj[r]),
                              !.ret = << "begin_resize", r >>, !.steps = steps + 1 ])

DictNext ==
    \E r \in 1..MaxCalls :
        \/ ShapeCopy(r)
        \/ ShapeBeginResize(r)
        \/ \E size \in SizesFor(obj[1]) : FromDict(r, size)

DictSpec == DictInit /\ [][DictNext]_vars

\* ------------------------------------------------------------ Python floats
\* BoundingBox.from_pixels and to_pixels as Python computes them, in IEEE 754
\* doubles: every / and * and every + and - of two floats is rounded to 53
\* significant bits, to nearest, ties to even.  A double is [m, e]: its
\* significand m as digits in base 65536, lowest first, and the exponent e of
\* the lowest bit; its value is (sum of m[i] * 65536^(i-1)) * 2^e.  All
\* values here are non-negative and far from overflow and underflow.
RECURSIVE StripHigh(_)
StripHigh(m) ==
    IF m = << >> THEN << >>
    ELSE IF m[Len(m)] = 0 THEN StripHigh(SubSeq(m, 1, Len(m) - 1)) ELSE m

RECURSIVE NatDigits(_)
NatDigits(n) == IF n = 0 THEN << >> ELSE << n % 65536 >> \o NatDigits(n \div 65536)

RECURSIVE DigitsNat(_)
DigitsNat(m) == IF m = << >> THEN 0 ELSE m[1] + 65536 * DigitsNat(Tail(m))

Padded(m, n) == m \o [ i \in 1..(n - Len(m)) |-> 0 ]

\* a + b + carry, a - b - borrow (for a >= b) and m * w + carry on digits;
\* a and b of the same length in the first two.
RECURSIVE AddSame(_, _, _)
AddSame(a, b, carry) ==
    IF a = << >> THEN NatDigits(carry)
    ELSE LET t == a[1] + b[1] + carry
         IN  << t % 65536 >> \o AddSame(Tail(a), Tail(b), t \div 65536)
AddDigits(a, b) ==
    AddSame(Padded(a, Max(Len(a), Len(b))), Padded(b, Max(Len(a), Len(b))), 0)

RECURSIVE SubSame(_, _, _)
SubSame(a, b, borrow) ==
    IF a = << >> THEN << >>
    ELSE LET t == a[1] - b[1] - borrow
         IN  << t % 65536 >> \o SubSame(Tail(a), Tail(b), IF t < 0 THEN 1 ELSE 0)
SubDigits(a, b) ==
    SubSame(Padded(a, Max(Len(a), Len(b))), Padded(b, Max(Len(a), Len(b))), 0)

RECURSIVE MulDigits(_, _, _)
MulDigits(m, w, carry) ==
    IF m = << >> THEN NatDigits(carry)
    ELSE LET t == m[1] * w + carry
         IN  << t % 65536 >> \o MulDigits(Tail(m), w, t \div 65536)

\* -1, 0 or 1 as the value of a is below, equal to or above that of b.
CmpDigits(a, b) ==
    LET n == Max(Len(a), Len(b))
        x == Padded(a, n)
        y == Padded(b, n)
        d == { i \in 1..n : x[i] # y[i] }
    IN  IF d = { } THEN 0
        ELSE LET h == CHOOSE i \in d : \A j \in d : j <= i
             IN  IF x[h] < y[h] THEN -1 ELSE 1

\* m * 2^k and the integer part of m / 2^k.
ShiftLeft(m, k) ==
    LET q == k \div 16
        r == k % 16
    IN  StripHigh([ i \in 1..(Len(m) + q + 1) |->
          IF i <= q THEN 0
          ELSE (IF i - q <= Len(m) THEN (m[i - q] * 2^r) % 65536 ELSE 0)
                 + (IF i - q >= 2 THEN m[i - q - 1] \div 2^(16 - r) ELSE 0) ])
ShiftRight(m, k) ==
    LET q == k \div 16
        r == k % 16
    IN  StripHigh([ i \in 1..(Len(m) - q) |->
          (m[i + q] \div 2^r)
            + (IF i + q < Len(m) THEN (m[i + q + 1] % 2^r) * 2^(16 - r) ELSE 0) ])
\* Bit j of m, the lowest being bit 1; whether a bit among the j lowest is set.
BitOf(m, j) == (m[((j - 1) \div 16) + 1] \div 2^((j - 1) % 16)) % 2
LowBitsSet(m, j) ==
    /\ j > 0
    /\ \/ \E i \in 1..(j \div 16) : m[i] # 0
       \/ j % 16 > 0 /\ m[(j \div 16) + 1] % 2^(j % 16) # 0
\* The number of bits of m, its highest digit not 0.
BitLength(m) ==
    16 * (Len(m) - 1)
      + (CHOOSE n \in 1..16 : 2^(n - 1) <= m[Len(m)] /\ m[Len(m)] < 2^n)

\* The k digits after the point of r / d in base 65536 (r < d), lowest
\* first, and what is left of r after them.
RECURSIVE FracRest(_, _, _)
FracRest(r, d, k) ==
    IF k = 0 THEN r ELSE FracRest((65536 * r) % d, d, k - 1)
FracDigits(r, d, k) ==
    [ i \in 1..k |-> (65536 * FracRest(r, d, k - i)) \div d ]

\* The double nearest to m * 2^e (plus something below the lowest bit when
\* sticky): round to nearest, ties to even.
RoundDouble(digits, e, sticky) ==
    LET s == StripHigh(digits)
    IN  IF s = << >> THEN [ m |-> << >>, e |-> 0 ]
        ELSE LET k == BitLength(s) - 53
             IN  IF k <= 0 THEN [ m |-> s, e |-> e ]
                 ELSE LET kept == ShiftRight(s, k)
                          low == sticky \/ LowBitsSet(s, k - 1)
                          up == BitOf(s, k) = 1 /\ (low \/ kept[1] % 2 = 1)
                      IN  [ m |-> IF up THEN AddDigits(kept, << 1 >>) ELSE kept,
                            e |-> e + k ]

\* n / d for integers n >= 0 and 0 < d < 2^14: Python's true division.
FloatDiv(n, d) ==
    RoundDouble(FracDigits(n % d, d, 5) \o NatDigits(n \div d), -80,
                FracRest(n % d, d, 5) # 0)
\* x * w for a double x and an integer 0 < w < 2^14
FloatMul(x, w) == RoundDouble(MulDigits(x.m, w, 0), x.e, FALSE)
\* x / 2
FloatHalf(x) == [ x EXCEPT !.e = IF x.m = << >> THEN 0 ELSE @ - 1 ]
\* The digits of x with lowest bit of exponent e <= x.e
AlignedTo(x, e) == IF x.m = << >> THEN << >> ELSE ShiftLeft(x.m, x.e - e)
\* x + y
FloatAdd(x, y) ==
    LET e == Min(x.e, y.e)
    IN  RoundDouble(AddDigits(AlignedTo(x, e), AlignedTo(y, e)), e, FALSE)
\* int(x): the integer part
FloatInt(x) ==
    IF x.m = << >> THEN 0
    ELSE IF x.e >= 0 THEN DigitsNat(ShiftLeft(x.m, x.e))
    ELSE DigitsNat(ShiftRight(x.m, -x.e))
\* int(x - y)
FloatIntOfDifference(x, y) ==
    LET e == Min(x.e, y.e)
        a == AlignedTo(x, e)
        b == AlignedTo(y, e)
    IN  IF CmpDigits(a, b) >= 0
        THEN FloatInt(RoundDouble(SubDigits(a, b), e, FALSE))
        ELSE -FloatInt(RoundDouble(SubDigits(b, a), e, FALSE))

\* BoundingBox.from_pixels with x, y, width and height kept as doubles
Box_from_pixels_float(s, x1, y1, x2, y2, iw, ih) ==
    [ s EXCEPT !.image_width = iw, !.image_height = ih,
               \* center_x = (x1 + x2) / 2 is exact; self.x = center_x / image_width
               !.x = FloatDiv(x1 + x2, 2 * iw), !.y = FloatDiv(y1 + y2, 2 * ih),
               !.width = FloatDiv(Abs(x2 - x1), iw),
               !.height = FloatDiv(Abs(y2 - y1), ih) ]

\* BoundingBox.to_pixels on such a box
Box_to_pixels_float(s) ==
    LET center_x == FloatMul(s.x, s.image_width)
        center_y == FloatMul(s.y, s.image_height)
        box_width == FloatMul(s.width, s.image_width)
        box_height == FloatMul(s.height, s.image_height)
    IN  << FloatIntOfDifference(center_x, FloatHalf(box_width)),
           FloatIntOfDifference(center_y, FloatHalf(box_height)),
           FloatInt(FloatAdd(center_x, FloatHalf(box_width))),
           FloatInt(FloatAdd(center_y, FloatHalf(box_height))) >>

\* A box is drawn on an empty canvas from pixel p to pixel q and read back.
PixelImages == { << 100, 100 >>, << 64, 64 >> }
PixelCorners == { 0, 10, 29, 50 } \X { 0, 10, 29, 60 }

PixelInit ==
    \E img \in PixelImages :
        StartsAt([ Constructed EXCEPT !.pixmap = TRUE, !.image_width = img[1],
                                      !.image_height = img[2],
                                      !.current_class_id = "Car" ])

\* start_drawing at p and update_drawing at q: the new box is given the
\* corners (min x, min y) and (max x, max y).
DrawBox(p, q) ==
    /\ obj = << >>
    /\ Becomes([ State EXCEPT
         !.obj = << Box_from_pixels_float(
                      BlankShape("box", "", image_width, image_height),
                      Min(p[1], q[1]), Min(p[2], q[2]), Max(p[1], q[1]), Max(p[2], q[2]),
                      image_width, image_height) >>,
         !.drawing = TRUE, !.start_point = p, !.current_shape = 1,
         !.ret = << "from_pixels", << p, q >> >>, !.steps = steps + 1 ])

\* current_shape.to_pixels()
ToPixels ==
    /\ obj # << >> /\ ret[1] = "from_pixels"
    /\ Becomes([ State EXCEPT !.ret = << "to_pixels", Box_to_pixels_float(obj[1]) >>,
                              !.steps = steps + 1 ])

PixelNext ==
    \/ \E p \in PixelCorners, q \in PixelCorners : DrawBox(p, q)
    \/ ToPixels

PixelSpec == PixelInit /\ [][PixelNext]_vars

\* =================================================================== claims
SelectedShapes == { i \in 1..Len(shapes) : obj[shapes[i]].selected }

\* C1: single selection -- in every reachable state the number of shapes of
\* the live collection whose selected flag is true is 0 or 1.
C1_SingleSelection == Cardinality(SelectedShapes) <= 1

\* The interaction modes that are active: panning is the dragging flag;
\* drawing is a box in progress, polygon vertices accumulated, or a circle
\* or ellipse centre captured.
ActiveModes ==
    { m \in { "panning", "drawing", "resizing", "moving", "drag_copying", "pasting" } :
        \/ m = "panning" /\ dragging
        \/ m = "drawing" /\ ( \/ drawing
                             \/ polygon_points # << >>
                             \/ circle_center # NoPos
                             \/ ellipse_center # NoPos )
        \/ m = "resizing" /\ resizing
        \/ m = "moving" /\ moving
        \/ m = "drag_copying" /\ drag_copy
        \/ m = "pasting" /\ pasting }

\* C2: mode mutual exclusion -- in every reachable state at most one of
\* panning, drawing, resizing, moving, drag-copying and pasting is active.
C2_ModeMutualExclusion == Cardinality(ActiveModes) <= 1

\* The gesture-local fields are cleared.
GestureFieldsCleared ==
    /\ resizing_handle = "" /\ resize_start_pos = NoPos
    /\ \A i \in 1..Len(shapes) : obj[shapes[i]].resize_origin = NoPos
    /\ move_start_pos = NoPos /\ move_original_positions = << >>
    /\ drag_copy_shape = None /\ original_shape = None /\ drag_start_pos = NoPos
    /\ current_shape = None

\* C3: return to idle -- after every left-button release that the handler
\* processes without raising, none of drawing, resizing, moving, drag-copying
\* and pasting is active and the gesture-local fields are cleared.
C3_ReturnToIdle ==
    [][ (LeftRelease /\ ~raised')
          => ( /\ ~drawing' /\ ~resizing' /\ ~moving' /\ ~drag_copy' /\ ~pasting'
               /\ GestureFieldsCleared' ) ]_vars

\* C4: pre-mutation snapshots -- an undo issued immediately after an event
\* that committed a change of the collection (a left release ending a draw,
\* move, resize or drag-copy, or a delete) restores the shape count and the
\* geometry of every shape as they were before the gesture.
C4_PreMutationSnapshot ==
    [][ (committed /\ Undo) => CollectionGeom(State)' = pre_gesture ]_vars

\* A gesture that a left release ends is in flight.
GestureInFlight ==
    \/ drawing \/ moving \/ resizing \/ drag_copy
    \/ circle_center # NoPos \/ ellipse_center # NoPos

\* The undo stack after one push on stack u, the oldest snapshot dropped at
\* the depth bound.
PushedOnce(u, v) ==
    /\ v # << >>
    /\ Front(v) = IF Len(u) < max_stack_size THEN u ELSE Tail(u)

\* C5: one snapshot per commit -- every left release that ends a draw, move,
\* resize or drag-copy which changed the geometry of the collection pushes
\* exactly one undo snapshot and empties the redo stack.
C5_OneSnapshotPerCommit ==
    [][ (LeftRelease /\ GestureInFlight /\ committed')
          => (PushedOnce(undo_stack, undo_stack') /\ redo_stack' = << >>) ]_vars

\* The geometry of the shapes referenced by the list l.
GeomOfAll(c, l) == [ i \in 1..Len(l) |-> GeomOf(c, l[i]) ]

\* The original statement of C6: a redo that follows a successful undo
\* restores every shape with the id it had before the undo.
C6_RoundTripSameIds ==
    [][ (before_undo # << >> /\ Redo)
          => ( /\ CollectionGeom(State)' = before_undo[2]
               /\ shapes' = before_undo[1] ) ]_vars

\* C6: undo/redo round trip -- a successful undo leaves the collection with
\* the class and geometry held by the newest snapshot (after drawing A then B:
\* A alone), and a redo that follows it restores the class and geometry of
\* every shape the collection had before the undo (A and B again); the
\* restored shapes are copies, so none of them has an id the collection had
\* before the undo.
C6_RoundTripFreshIds ==
    /\ [][ (Undo /\ undo_stack # << >>)
             => CollectionGeom(State)' = GeomOfAll(State, Last(undo_stack)) ]_vars
    /\ [][ (before_undo # << >> /\ Redo)
             => ( /\ CollectionGeom(State)' = before_undo[2]
                  /\ \A i \in 1..Len(shapes') :
                       ~InSeq(shapes'[i], before_undo[1]) ) ]_vars

\* Two shapes were drawn, one undo and one redo followed: the collection has
\* two shapes again.
C6_Witness ==
    /\ ret = << "redo", TRUE >> /\ Len(shapes) = 2 /\ Len(undo_stack) = 2
    /\ redo_stack = << >>

\* What a failed undo or redo must leave alone: the collection, the
\* selection (the reference and the flags of the shapes) and both stacks.
HistoryFrame ==
    /\ shapes' = shapes /\ selected_shape' = selected_shape /\ obj' = obj
    /\ lists' = lists
    /\ undo_stack' = undo_stack /\ redo_stack' = redo_stack

\* C7: empty-stack no-op -- undo with an empty undo stack, and redo with an
\* empty redo stack, returns False and leaves the collection, the selection
\* and both stacks unchanged.
C7_EmptyStackNoOp ==
    /\ [][ (Undo /\ undo_stack = << >>)
             => (ret' = << "undo", FALSE >> /\ HistoryFrame) ]_vars
    /\ [][ (Redo /\ redo_stack = << >>)
             => (ret' = << "redo", FALSE >> /\ HistoryFrame) ]_vars

\* An undo failed on an empty stack while a shape was selected.
C7_Witness ==
    /\ ret = << "undo", FALSE >> /\ undo_stack = << >>
    /\ selected_shape # None /\ InSeq(selected_shape, shapes)
    /\ obj[selected_shape].selected

\* C8: undo and redo clear the selection -- after every successful undo or
\* redo the selected-shape reference is empty and no shape of the restored
\* collection has its selected flag set.
C8_UndoRedoClearSelection ==
    [][ ((Undo /\ ret' = << "undo", TRUE >>) \/ (Redo /\ ret' = << "redo", TRUE >>))
          => ( /\ selected_shape' = None
               /\ \A i \in 1..Len(shapes') : ~obj'[shapes'[i]].selected ) ]_vars

\* C9: bounded history -- neither stack ever holds more than max_stack_size
\* snapshots, and a commit (any event but undo and redo that changes the
\* undo stack) made when the undo stack is full drops the oldest snapshot.
C9_BoundedHistory ==
    /\ [](Len(undo_stack) <= max_stack_size /\ Len(redo_stack) <= max_stack_size)
    /\ [][ ( /\ Len(undo_stack) = max_stack_size
             /\ undo_stack' # undo_stack /\ ~Undo /\ ~Redo )
             => ( /\ Len(undo_stack') = max_stack_size
                  /\ Front(undo_stack') = Tail(undo_stack) ) ]_vars

\* A commit was made with the undo stack full.
C9_Witness == evicted /\ Len(undo_stack) = max_stack_size

\* The shape objects held by the history snapshots and the clipboard.
CapturedRefs(c) ==
    { r \in 1..Len(c.obj) :
        \/ r = c.clipboard_shape
        \/ \E i \in 1..Len(c.undo_stack) : InSeq(r, c.undo_stack[i])
        \/ \E i \in 1..Len(c.redo_stack) : InSeq(r, c.redo_stack[i]) }

\* C10: snapshot isolation -- no event changes the geometry of a shape that
\* a history snapshot or the clipboard holds before and after it.
C10_SnapshotIsolation ==
    [][ \A r \in CapturedRefs(State) :
          (r \in CapturedRefs(State)') => GeomOf(State, r)' = GeomOf(State, r) ]_vars

\* The class and geometry stored by every snapshot of stack st.
StackGeom(c, st) == [ i \in 1..Len(st) |-> GeomOfAll(c, st[i]) ]

\* C11: cancellation leaves history alone -- Escape, whichever operation it
\* cancels (box drawing, move, drag-copy, polygon, circle, ellipse), and
\* cancel_paste leave the undo stack and the redo stack, and what their
\* snapshots store, exactly as they were.
C11_CancelLeavesHistory ==
    [][ (KeyEscape \/ CancelPaste)
          => ( /\ undo_stack' = undo_stack /\ redo_stack' = redo_stack
               /\ StackGeom(State, undo_stack)' = StackGeom(State, undo_stack)
               /\ StackGeom(State, redo_stack)' = StackGeom(State, redo_stack) ) ]_vars

\* A drag-copy was cancelled with snapshots on both stacks.
C11_Witness ==
    gesture = "cancel_drag_copy" /\ undo_stack # << >> /\ redo_stack # << >>

\* C12: move cancel restores geometry -- when a press started a move, only
\* pointer moves followed and Escape then calls cancel_move, the collection
\* has the members it had and every shape the geometry it had at the press,
\* and moving is no longer active.
C12_MoveCancelRestores ==
    [][ (gesture = "move" /\ moving /\ ~pan_mode /\ KeyEscape)
          => ( /\ shapes' = shapes
               /\ CollectionGeom(State)' = pre_gesture
               /\ ~moving' ) ]_vars

C14_PasteCancel ==
    [][ (gesture = "paste" /\ CancelPaste)
          => ( /\ paste_shape = Last(shapes)
               /\ shapes' = Front(shapes)
               /\ CollectionGeom(State)' = GeomOfAll(State, Front(shapes))
               /\ ~pasting' ) ]_vars

\* A paste into a collection of at least one shape was cancelled.
C14_Witness ==
    gesture = "cancel_paste" /\ shapes # << >> /\ ~pasting /\ paste_shape = None

\* C15: paste stays provisional until resolved -- no event of the program
\* (none of them is confirm_paste or cancel_paste) ends pasting while the
\* pasted shape stays in the collection.
C15_PasteStaysProvisional ==
    [][ (pasting /\ InSeq(paste_shape, shapes')) => pasting' ]_vars

\* C16: paste confirm commits -- confirm_paste while a paste is active
\* pushes one undo snapshot and empties the redo stack.
C16_PasteConfirmCommits ==
    [][ (pasting /\ paste_shape # None /\ ConfirmPaste)
          => ( PushedOnce(undo_stack, undo_stack') /\ redo_stack' = << >> ) ]_vars

\* C17: Escape cancels a pending paste -- Escape while a paste is active and
\* no other mode is removes the pasted shape from the collection and clears
\* the paste staging slot.
C17_EscapeCancelsPaste ==
    [][ (ActiveModes = { "pasting" } /\ ~pan_mode /\ InSeq(paste_shape, shapes)
           /\ KeyEscape)
          => ( ~InSeq(paste_shape, shapes') /\ paste_shape' = None ) ]_vars

\* Handle h is one shape s, whose points are pts, resizes from.
Recognized(s, pts, h) ==
    IF s.type = "polygon"
    THEN h \in VertexHandles /\ VertexIndex(h) < Len(pts)
    ELSE h \in CornerHandles

\* A pointer move calls resize_from_handle on the selected shape.
ResizeCall == (\E p \in Positions : MouseMove(p)) /\ InResizeBranch(State)

\* C18: resize needs an origin -- a resize_from_handle of a box, circle,
\* ellipse or polygon that has no origin captured, or with a handle the
\* shape does not recognize, returns false and leaves the geometry of the
\* collection unchanged.
C18_ResizeNeedsOrigin ==
    [][ ( /\ ResizeCall
          /\ \/ obj[selected_shape].resize_origin = NoPos
             \/ ~Recognized(obj[selected_shape],
                            PointsOf(State, obj[selected_shape]), resizing_handle) )
          => ( /\ ret' = << "resize_from_handle", FALSE >>
               /\ CollectionGeom(State)' = CollectionGeom(State) ) ]_vars

\* C19: resize anchored to gesture start -- within one resize gesture the
\* geometry after a pointer move is determined by the geometry at the press
\* and the position moved to: a second pointer move to the position of the
\* one before it leaves the geometry of the collection as that one left it.
C19_ResizeAnchoredToStart ==
    [][ ( /\ gesture = "resize" /\ gesture_pos # << >>
          /\ MouseMove(gesture_pos) /\ InResizeBranch(State) )
          => CollectionGeom(State)' = CollectionGeom(State) ]_vars

\* to_pixels() or to_pixel_points() of every shape of the collection.
PixelGeom(c) ==
    [ i \in 1..Len(c.shapes) |->
        LET s == c.obj[c.shapes[i]]
        IN  CASE s.type = "box" -> Box_to_pixels(s)
              [] s.type = "circle" -> Circle_to_pixels(s)
              [] s.type = "ellipse" -> Ellipse_to_pixels(s)
              [] OTHER -> Polygon_to_pixel_points(PointsOf(c, s)) ]

\* C20: zero-delta resize is a no-op -- when a press on a handle has begun a
\* resize and the first pointer move is to the position of the press, the
\* resize_from_handle(h, 0, 0) it calls leaves the pixel geometry of every
\* shape unchanged.
C20_ZeroDeltaResize ==
    [][ ( /\ gesture = "resize" /\ gesture_pos = << >> /\ InResizeBranch(State)
          /\ \E p \in Positions :
                MouseMove(p) /\ widget_to_image(State, p) = resize_start_pos )
          => PixelGeom(State)' = PixelGeom(State) ]_vars

\* A resize_from_handle of the shape succeeded.
Resized ==
    /\ \E h \in HandleInputs, dx \in Deltas, dy \in Deltas : ResizeFromHandle(h, dx, dy)
    /\ ret' = << "resize_from_handle", TRUE >>

\* C21: box resize never degenerates -- after a successful resize_from_handle
\* of a box, whatever the corner handle and the pixel delta, the box is at
\* least 1 pixel wide and 1 pixel high (right > left and bottom > top).
C21_BoxNeverDegenerates ==
    [][ (Resized /\ obj[1].type = "box")
          => LET b == Box_to_pixels(obj[1])'
             IN  b[3] - b[1] >= 1 /\ b[4] - b[2] >= 1 ]_vars

\* C22: box resize stays in the image -- after a successful resize_from_handle
\* of a box its left and right edges lie in [0, image_width - 1] and its top
\* and bottom edges in [0, image_height - 1].
C22_BoxStaysInImage ==
    [][ (Resized /\ obj[1].type = "box")
          => LET b == Box_to_pixels(obj[1])'
             IN  /\ 0 <= b[1] /\ b[1] <= image_width - 1
                 /\ 0 <= b[3] /\ b[3] <= image_width - 1
                 /\ 0 <= b[2] /\ b[2] <= image_height - 1
                 /\ 0 <= b[4] /\ b[4] <= image_height - 1 ]_vars

\* A box lying across the image edge was resized, with an edge brought back
\* to the last pixel column.
C22_Witness ==
    /\ obj[1].type = "box" /\ ret = << "resize_from_handle", TRUE >>
    /\ obj[1].resize_origin = << 20, 20, 36, 36 >>
    /\ Box_to_pixels(obj[1])[3] = image_width - 1

DraggedSpan(l0, t0, r0, b0, h, dx, dy) ==
    << (IF h \in { "top_right", "bottom_right" } THEN r0 + dx ELSE r0)
         - (IF h \in { "top_left", "bottom_left" } THEN l0 + dx ELSE l0),
       (IF h \in { "bottom_left", "bottom_right" } THEN b0 + dy ELSE b0)
         - (IF h \in { "top_left", "top_right" } THEN t0 + dy ELSE t0) >>

\* Dragging corner h of shape s by (dx, dy) takes it below its minimum size:
\* a box loses its width or its height, a circle or an ellipse is left a
\* radius under 5 pixels.
WouldCollapse(s, h, dx, dy) ==
    /\ s.type \in { "box", "circle", "ellipse" }
    /\ s.resize_origin # NoPos /\ h \in CornerHandles
    /\ LET o == s.resize_origin
           d == CASE s.type = "box" ->
                       DraggedSpan(o[1], o[2], o[3], o[4], h, dx, dy)
                  [] s.type = "circle" ->
                       DraggedSpan(o[1] - o[3], o[2] - o[3], o[1] + o[3], o[2] + o[3],
                                   h, dx, dy)
                  [] OTHER ->
                       DraggedSpan(o[1] - o[3], o[2] - o[4], o[1] + o[3], o[2] + o[4],
                                   h, dx, dy)
       IN  IF s.type = "box" THEN d[1] <= 0 \/ d[2] <= 0
           ELSE d[1] < 2 * min_radius \/ d[2] < 2 * min_radius

\* C24: collapsing resize is rejected -- when a pointer move of a resize
\* gesture drags the handle so far that the shape would go below its minimum
\* size, the step is not applied: the geometry of the collection (centre as
\* well as size) stays as it was before the move, and resizing stays active.
C24_CollapsingResizeRejected ==
    [][ ( /\ gesture = "resize" /\ InResizeBranch(State)
          /\ \E p \in Positions :
                /\ MouseMove(p)
                /\ WouldCollapse(obj[selected_shape], resizing_handle,
                     widget_to_image(State, p)[1] - resize_start_pos[1],
                     widget_to_image(State, p)[2] - resize_start_pos[2]) )
          => ( CollectionGeom(State)' = CollectionGeom(State) /\ resizing' ) ]_vars

\* The drawing gesture a left release ends, by the tests of
\* mouseReleaseEvent: "box", "circle", "ellipse", or "" for none.
DrawingInFlight ==
    IF dragging \/ moving THEN ""
    ELSE IF drawing THEN (IF current_shape # None THEN "box" ELSE "")
    ELSE IF drag_copy THEN ""
    ELSE IF current_shape_type = "circle" /\ circle_center # NoPos THEN "circle"
    ELSE IF current_shape_type = "ellipse" /\ ellipse_center # NoPos THEN "ellipse"
    ELSE ""

\* The shape in progress meets its floor: both spans of a box at least 10
\* pixels, the radius of a circle and both radii of an ellipse at least 5.
MeetsFloor ==
    CASE DrawingInFlight = "box" ->
            LET b == Box_to_pixels(obj[current_shape])
            IN  b[3] - b[1] >= 10 /\ b[4] - b[2] >= 10
      [] DrawingInFlight = "circle" -> circle_radius >= min_radius
      [] DrawingInFlight = "ellipse" ->
            ellipse_radius_x >= min_radius /\ ellipse_radius_y >= min_radius
      [] OTHER -> FALSE

\* C25: minimum size at commit -- the left release that ends a box, circle
\* or ellipse drawing appends the shape to the collection and pushes one undo
\* snapshot if the shape meets its floor, and leaves the collection and both
\* stacks unchanged if it does not (a click with no drag included).
C25_MinimumSizeAtCommit ==
    [][ (DrawingInFlight # "" /\ LeftRelease)
          => IF MeetsFloor
             THEN /\ Len(shapes') = Len(shapes) + 1 /\ Front(shapes') = shapes
                  /\ PushedOnce(undo_stack, undo_stack')
             ELSE /\ shapes' = shapes
                  /\ undo_stack' = undo_stack /\ redo_stack' = redo_stack ]_vars

\* The shapes held by the collection and by the snapshots of both stacks.
Committed ==
    { shapes[i] : i \in 1..Len(shapes) }
      \cup UNION { { undo_stack[k][i] : i \in 1..Len(undo_stack[k]) } :
                     k \in 1..Len(undo_stack) }
      \cup UNION { { redo_stack[k][i] : i \in 1..Len(redo_stack[k]) } :
                     k \in 1..Len(redo_stack) }

\* C26: in-progress shapes are not committed -- in every reachable state the
\* shape in the current-shape slot is not a member of the collection and has
\* no class_id, and every member of the collection or of a snapshot has one.
C26_InProgressNotCommitted ==
    /\ current_shape # None
         => ( ~InSeq(current_shape, shapes) /\ obj[current_shape].class_id = "" )
    /\ \A r \in Committed : obj[r].class_id # ""

\* A box is in progress while the collection and the undo stack hold shapes.
C26_Witness ==
    /\ drawing /\ current_shape # None
    /\ shapes # << >> /\ undo_stack # << >> /\ Last(undo_stack) # << >>

\* A left press at widget position p falls on empty canvas: pan mode is off,
\* an image is loaded, and p is neither on a resize handle of the selected
\* shape nor inside a shape.
OnEmptyCanvas(p) ==
    /\ ~pan_mode /\ pixmap
    /\ ~(selected_shape # None
           /\ get_resize_handle_at_pos(State, p, selected_shape) # "")
    /\ ShapeAt(State, widget_to_image(State, p)) = None

\* C27: no active class, no drawing -- with no class active, a left press on
\* empty canvas with the box, polygon, circle or ellipse tool constructs no
\* shape, starts no box, adds no polygon vertex, sets no circle or ellipse
\* centre, and leaves the collection and both stacks unchanged.
C27_NoClassNoDrawing ==
    [][ ( /\ get_current_class(State) = "" /\ current_shape_type # "none"
          /\ \E p \in Positions, ctrl \in BOOLEAN :
                LeftPress(p, ctrl) /\ OnEmptyCanvas(p) )
          => ( /\ Len(obj') = Len(obj) /\ current_shape' = current_shape
               /\ (drawing' => drawing)
               /\ polygon_points' = polygon_points
               /\ circle_center' = circle_center
               /\ ellipse_center' = ellipse_center
               /\ shapes' = shapes
               /\ CollectionGeom(State)' = CollectionGeom(State)
               /\ undo_stack' = undo_stack /\ redo_stack' = redo_stack ) ]_vars

\* A press was refused for want of a class while the collection and the undo
\* stack hold shapes.
C27_Witness ==
    /\ gesture = "no_class" /\ left_down /\ shapes # << >> /\ undo_stack # << >>

\* C28: no event raises an error -- in every reachable state every pointer
\* and key event handled so far has completed without raising.
C28_NoEventRaises == ~raised

\* The transition of the routing order that applies first to a left press at
\* p: 1 a resize handle of the selected shape, 2 Ctrl and a shape, 3 a
\* selected shape, 4 an unselected shape, 5 a drawing tool, 6 none of these.
Route(p, ctrl) ==
    LET under == ShapeAt(State, widget_to_image(State, p))
    IN  IF selected_shape # None
           /\ get_resize_handle_at_pos(State, p, selected_shape) # "" THEN 1
        ELSE IF under # None /\ ctrl THEN 2
        ELSE IF under # None /\ obj[under].selected THEN 3
        ELSE IF under # None THEN 4
        ELSE IF current_shape_type # "none" THEN 5
        ELSE 6

\* The press started no drawing: no box, no vertex, no centre it did not
\* find there.
NoDrawingStarted ==
    /\ drawing' => drawing
    /\ Len(polygon_points') <= Len(polygon_points)
    /\ circle_center' # NoPos => circle_center' = circle_center
    /\ ellipse_center' # NoPos => ellipse_center' = ellipse_center
    /\ gesture' # "close_polygon"

\* What a press at p routed to transition n does, and what it leaves to the
\* transitions after n.
Routed(n, p) ==
    LET under == ShapeAt(State, widget_to_image(State, p))
    IN  CASE n = 1 ->
               /\ resizing'
               /\ resizing_handle' = get_resize_handle_at_pos(State, p, selected_shape)
               /\ resize_start_pos' = widget_to_image(State, p)
               /\ obj'[selected_shape].resize_origin # NoPos
               /\ drag_copy' = drag_copy /\ moving' = moving
               /\ shapes' = shapes /\ selected_shape' = selected_shape
               /\ NoDrawingStarted
          [] n = 2 ->
               /\ drag_copy' /\ original_shape' = under
               /\ Len(shapes') = Len(shapes) + 1 /\ drag_copy_shape' = Last(shapes')
               /\ moving' = moving /\ NoDrawingStarted
          [] n = 3 ->
               /\ moving' /\ shapes' = shapes
               /\ selected_shape' = under /\ NoDrawingStarted
               /\ (drag_copy' => drag_copy) /\ (resizing' => resizing)
          [] n = 4 ->
               /\ selected_shape' = under /\ obj'[under].selected
               /\ shapes' = shapes /\ NoDrawingStarted
               /\ (moving' => moving) /\ (drag_copy' => drag_copy)
               /\ (resizing' => resizing) /\ (dragging' => dragging)
          [] n = 5 ->
               /\ selected_shape' = selected_shape
               /\ get_current_class(State) # ""
                    => CASE current_shape_type = "box" -> drawing' /\ current_shape' # None
                         [] current_shape_type = "polygon" ->
                              \/ polygon_points' = Append(polygon_points,
                                                          widget_to_image(State, p))
                              \/ gesture' = "close_polygon"
                         [] current_shape_type = "circle" ->
                              circle_center' = widget_to_image(State, p)
                         [] OTHER -> ellipse_center' = widget_to_image(State, p)
          [] OTHER ->
               /\ selected_shape' = None /\ shapes' = shapes
               /\ \A i \in 1..Len(shapes) : ~obj'[shapes[i]].selected

\* C29: pointer-down routing -- a left press with pan mode off and an image
\* loaded takes the first transition that applies, in the order resize
\* handle of the selected shape (resizing, origin captured), Ctrl on a shape
\* (drag-copy), selected shape (moving), unselected shape (selected, idle),
\* drawing tool (drawing started or continued), none (all deselected), and
\* does nothing of the transitions after it.
C29_PointerDownRouting ==
    [][ (~left_down /\ left_down' /\ ~pan_mode /\ pixmap)
          => \A p \in Positions, ctrl \in BOOLEAN :
                LeftPress(p, ctrl) => Routed(Route(p, ctrl), p) ]_vars

\* A left press at widget position p with the polygon tool and an active
\* class lands on empty canvas less than closure_threshold pixels from the
\* first vertex of the polygon in progress.
ClosingClick(p) ==
    /\ current_shape_type = "polygon" /\ get_current_class(State) # ""
    /\ OnEmptyCanvas(p) /\ polygon_points # << >>
    /\ LET ip == widget_to_image(State, p)
           f == polygon_points[1]
       IN  (ip[1] - f[1]) * (ip[1] - f[1]) + (ip[2] - f[2]) * (ip[2] - f[2])
             < closure_threshold * closure_threshold

\* The collection gained, as its last member, a closed polygon of the active
\* class whose pixel vertices are pp, and kept its other members as they were.
PolygonCommitted(pp) ==
    /\ Len(shapes') = Len(shapes) + 1
    /\ SubSeq(shapes', 1, Len(shapes)) = shapes
    /\ SubSeq(CollectionGeom(State)', 1, Len(shapes)) = CollectionGeom(State)
    /\ LET s == obj'[Last(shapes')]
           pts == IF s.points = None THEN << >> ELSE lists'[s.points]
       IN  /\ s.type = "polygon" /\ s.closed
           /\ s.class_id = get_current_class(State)
           /\ Polygon_to_pixel_points(pts) = pp
           \* the hit test answers by the k vertices
           /\ \A q \in Positions :
                 contains_point(s, pts, q[1], q[2]) = RayCast(pp, 1, q[1], q[2], FALSE)

C31_ShortPolygonFinishRejected ==
    [][ (KeyReturn /\ Len(polygon_points) < 3)
          => ( /\ shapes' = shapes
               /\ CollectionGeom(State)' = CollectionGeom(State)
               /\ undo_stack' = undo_stack /\ redo_stack' = redo_stack
               /\ polygon_points' = polygon_points ) ]_vars

\* The fields of to_dict whose values are compared: everything but which
\* list object 'points' is.
DictFields(c, r) ==
    LET d == to_dict(c, r)
    IN  [ k \in (DOMAIN d) \ { "points_list" } |-> d[k] ]

\* C32: copy preserves everything but the id -- for each of the four
\* classes, the object copy() returns has an id different from the original's
\* and from that of every other object, and its to_dict() equals the
\* original's on every field except id.
C32_CopyKeepsAllButId ==
    [][ \A r \in 1..MaxCalls :
          ShapeCopy(r)
            => LET after == State'
                   new == Len(after.obj)
                   a == DictFields(State, r)
                   b == DictFields(after, new)
               IN  /\ new = Len(obj) + 1
                   /\ \A q \in 1..Len(obj) : IdOf(after, new) # IdOf(after, q)
                   /\ DOMAIN b = DOMAIN a
                   /\ \A k \in (DOMAIN a) \ { "id" } : b[k] = a[k] ]_vars

\* A circle holding a resize origin has been copied, the copy holding it
\* too, and a copy of a closed polygon exists as well.
C32_Witness ==
    /\ ret[1] = "copy" /\ Len(obj) >= 2
    /\ \/ /\ obj[ret[2]].type = "circle" /\ obj[ret[2]].resize_origin # NoPos
          /\ obj[Len(obj)].resize_origin = obj[ret[2]].resize_origin
       \/ /\ obj[ret[2]].type = "polygon" /\ obj[ret[2]].closed
          /\ obj[Len(obj)].points = obj[ret[2]].points /\ Len(obj) = 3

\* C33: serialization round trip -- for each of the four classes and every
\* shape s, from_dict(s.to_dict(), image_size) is a shape of the same class
\* whose to_dict() equals s.to_dict() on every field: id, class_id, the
\* geometry and, for a polygon, the closed flag.
C33_DictRoundTrip ==
    [][ \A r \in 1..MaxCalls, size \in SizesFor(obj[1]) :
          FromDict(r, size)
            => LET after == State'
                   new == Len(after.obj)
               IN  /\ new = Len(obj) + 1
                   /\ after.obj[new].type = obj[r].type
                   /\ after.obj[new].image_width = size[1]
                   /\ after.obj[new].image_height = size[2]
                   /\ DictFields(after, new) = DictFields(State, r) ]_vars

\* A closed polygon was read back at twice the image size from the
\* dictionary of a polygon that was itself read back or copied.
C33_Witness ==
    /\ ret[1] = "from_dict" /\ Len(obj) = 3 /\ ret[2] = 2
    /\ obj[3].type = "polygon" /\ obj[3].closed /\ obj[3].points # None
    /\ obj[3].image_width = 64 /\ obj[1].image_width = 32
    /\ Polygon_to_pixel_points(lists[obj[3].points]) = << << 8, 8 >>, << 56, 8 >>, << 8, 56 >> >>

\* C34: loading an image clears annotations -- immediately after an image is
\* loaded the collection is empty, nothing is selected, and no drawing
\* (box, polygon, circle or ellipse), resizing, drag-copy or paste is active.
C34_LoadClearsAnnotations ==
    [][ (\E img \in Images : LoadImage(img))
          => ( /\ shapes' = << >> /\ selected_shape' = None
               /\ ~drawing' /\ current_shape' = None /\ polygon_points' = << >>
               /\ circle_center' = NoPos /\ ellipse_center' = NoPos
               /\ ~resizing' /\ ~drag_copy' /\ ~pasting' ) ]_vars

\* An image was loaded over a collection that held shapes, one of them
\* selected when the load came: the history still holds them.
C34_Witness ==
    /\ gesture = "load_image" /\ steps > 0 /\ shapes = << >>
    /\ undo_stack # << >> /\ \E r \in 1..Len(obj) : obj[r].selected

\* C36: resize origin is transient -- in every reachable state in which the
\* canvas is not resizing, no shape of the live collection holds a captured
\* resize origin.
C36_ResizeOriginTransient ==
    ~resizing => \A i \in 1..Len(shapes) : obj[shapes[i]].resize_origin = NoPos

\* C37: selection reference is live -- in every reachable state the
\* selected-shape reference is None or a member of the live collection.
C37_SelectionIsLive ==
    selected_shape = None \/ InSeq(selected_shape, shapes)

\* An undo has just succeeded while the left button was down, and a shape
\* that carries the selected flag is outside the restored collection.
C37_Witness ==
    /\ before_undo # << >> /\ left_down /\ shapes # << >>
    /\ selected_shape = None
    /\ \E r \in 1..Len(obj) : obj[r].selected /\ ~InSeq(r, shapes)

\* C38: annotations stay scoped to the current image -- in every reachable
\* state every shape of the live collection was created on the currently
\* loaded image: the image dimensions it stores are the current image's.
C38_ShapesOfCurrentImage ==
    \A i \in 1..Len(shapes) :
        /\ obj[shapes[i]].image_width = image_width
        /\ obj[shapes[i]].image_height = image_height

\* C39: delete is undoable and guarded -- a delete with a shape selected
\* pushes a snapshot of the collection as it was, removes exactly that shape
\* and clears the selection, and an undo right after it gives back a
\* collection of the same size, geometry and class ids as before the delete;
\* with nothing selected a delete leaves the collection and both stacks
\* unchanged; the Delete key does nothing while a move or a drag-copy is
\* active or pan mode is on.
C39_DeleteUndoableAndGuarded ==
    [][ /\ ( /\ selected_shape # None
             /\ MenuDelete \/ (KeyDelete /\ ~moving /\ ~drag_copy /\ ~pan_mode) )
          => ( /\ PushedOnce(undo_stack, undo_stack')
               /\ LET after == State'
                  IN  GeomOfAll(after, Last(after.undo_stack)) = CollectionGeom(State)
               /\ shapes' = RemoveFirst(shapes, selected_shape)
               /\ selected_shape' = None /\ ~raised' )
        /\ (gesture = "delete" /\ Undo)
          => CollectionGeom(State)' = pre_gesture
        /\ (selected_shape = None /\ (MenuDelete \/ KeyDelete))
          => ( /\ shapes' = shapes /\ CollectionGeom(State)' = CollectionGeom(State)
               /\ undo_stack' = undo_stack /\ redo_stack' = redo_stack )
        /\ (KeyDelete /\ (moving \/ drag_copy \/ pan_mode))
          => ( /\ shapes' = shapes /\ CollectionGeom(State)' = CollectionGeom(State)
               /\ selected_shape' = selected_shape
               /\ undo_stack' = undo_stack /\ redo_stack' = redo_stack ) ]_vars

\* An undo has just given back a collection of two shapes of which one had
\* been deleted.
C39_Witness ==
    /\ before_undo # << >> /\ Len(before_undo[1]) = 1 /\ Len(shapes) = 2
    /\ CollectionGeom(State) = pre_gesture /\ redo_stack # << >>

\* C35: box from pixels -- for integer pixel corners inside the image, the
\* box drawn from one to the other stores centre ((x1+x2)/2/W, (y1+y2)/2/H),
\* width |x2-x1|/W and height |y2-y1|/H (to the nearest double), and
\* to_pixels then returns exactly (min x, min y, max x, max y).
C35_BoxFromPixels ==
    [][ ToPixels
          => LET p == ret[2][1]
                 q == ret[2][2]
                 s == obj[1]
             IN  /\ s.x = FloatDiv(p[1] + q[1], 2 * image_width)
                 /\ s.y = FloatDiv(p[2] + q[2], 2 * image_height)
                 /\ s.width = FloatDiv(Abs(q[1] - p[1]), image_width)
                 /\ s.height = FloatDiv(Abs(q[2] - p[2]), image_height)
                 /\ ret'[2] = << Min(p[1], q[1]), Min(p[2], q[2]),
                                 Max(p[1], q[1]), Max(p[2], q[2]) >> ]_vars

====
